---------------------------- MODULE Spec2Model ----------------------------
(***************************************************************************)
(* A model of the Lapis tree-walking interpreter (src/interpreter.py,      *)
(* src/environment.py, src/errors.py, src/lapis.py).                       *)
(*                                                                         *)
(* The evaluator is translated as a family of operators, one per method,   *)
(* that thread the mutable state of the Python process (the heap of        *)
(* Environment objects, the heap of LapisInstance objects, standard output *)
(* and the fields of the running Interpreter) through the walk of the AST. *)
(* A Python exception is a result whose kind is not "ok": ReturnException, *)
(* BreakException and ContinueException are the kinds "Return", "Break"    *)
(* and "Continue"; every other exception is the kind "Exception" carrying  *)
(* its class and, for a LapisError, its diagnostic code.                   *)
(*                                                                         *)
(* The state machine is run_file: one step per top-level statement of the  *)
(* main program (the loop of Interpreter.interpret), then the exit.        *)
(***************************************************************************)
EXTENDS Integers, Sequences, FiniteSets, TLC

VARIABLES
    files,      \* the file system: resolved file name -> parsed Program
    program,    \* the statements of the main file (Program.statements)
    pc,         \* index of the next top-level statement of the main program
    st,         \* the evaluator state (see Interpreter)
    exit,       \* "running", or the outcome of run_file
    source_map, \* the global _source_map of source_map.py
    tokens,     \* Lexer.tokens of the lexer that ran last
    position,   \* the last call of SourceFile.offset_to_position and its result
    returned    \* the last call made on an object directly, and what it returned

vars == <<files, program, pc, st, exit, source_map, tokens, position, returned>>

-----------------------------------------------------------------------------
(* Bounds of the model *)

\* Nested Interpreter.interpret activations the host stack holds before
\* Python raises RecursionError (sys.getrecursionlimit, scaled down).
MaxImportDepth == 3

\* Largest number of arguments of a call in the generated programs.
MaxArgs == 3

\* Longest try body in the generated programs.
MaxBodyLen == 2

-----------------------------------------------------------------------------
(* Runtime values *)

Null == [t |-> "null"]

Bool(b) == [t |-> "bool", v |-> b]

Num(n) == [t |-> "num", v |-> n]

Str(x) == [t |-> "str", v |-> x]

Arr(elems) == [t |-> "arr", v |-> elems]

\* A Python dict: its items in insertion order, each a key and a value.
Dict(items) == [t |-> "dict", v |-> items]

\* A Python float, kept as the exact fraction n/d in lowest terms (d > 0).
\* The lexer turns a whole-number literal into an int, so a float literal
\* always has a fractional part; arithmetic can still produce 1.0.
RECURSIVE GCD(_, _)
GCD(a, b) == IF b = 0 THEN a ELSE GCD(b, a % b)

Float(n, d) ==
    LET g == GCD(IF n < 0 THEN -n ELSE n, d)
    IN  [t |-> "float", n |-> n \div g, d |-> d \div g]

\* A float whose value is not a fraction of small integers (2 ** 0.5): only
\* its origin is kept.
InexactFloat(base, exponent) == [t |-> "float", base |-> base, exponent |-> exponent]

\* AccessModifier (src/ast_nodes.py)
PUBLIC == "public"

PRIVATE == "private"

\* A Python exception object: its class and, for a LapisError built around a
\* Diagnostic, the diagnostic code.
Exc(cls, code) == [t |-> "exc", cls |-> cls, code |-> code]

\* RuntimeError("message"): LapisError.__init__ stores the string as the
\* diagnostic and _format_simple_message calls primary_span() on it, so the
\* constructor itself raises Python's AttributeError and no LapisError exists.
RuntimeError_str == Exc("AttributeError", "")

\* LapisError.from_simple(code, ...) on one of the LapisError subclasses.
from_simple(cls, code) == Exc(cls, code)

LapisRuntimeException(original) == [t |-> "LapisRuntimeException", original_exception |-> original]

LapisFunction(declaration, closure, is_initializer) ==
    [t |-> "LapisFunction", declaration |-> declaration, closure |-> closure,
     is_initializer |-> is_initializer]

LapisClass(name, methods, access) ==
    [t |-> "LapisClass", name |-> name, methods |-> methods, access_modifier |-> access]

LapisInstance(id) == [t |-> "LapisInstance", id |-> id]

BoundMethod(instance, method) ==
    [t |-> "BoundMethod", instance |-> instance, method |-> method]

\* LapisConsoleInstance, LapisMathInstance: host objects answering get(name).
HostModule(name) == [t |-> "HostModule", name |-> name]

HostFunction(module, name) == [t |-> "HostFunction", module |-> module, name |-> name]

-----------------------------------------------------------------------------
(* Results of evaluation *)

Ok(s, v) == [s |-> s, k |-> "ok", v |-> v]

Raise(s, e) == [s |-> s, k |-> "Exception", v |-> e]

Transfer(s, k, v) == [s |-> s, k |-> k, v |-> v]

ControlFlow == {"Return", "Break", "Continue"}

-----------------------------------------------------------------------------
(* Environment (src/environment.py) *)

NoValues == [n \in {} |-> Null]

Variable(value, access) == [value |-> value, access_modifier |-> access]

\* A check that lets every file access every binding.
can_access_everything(var, from_external_file) == TRUE

can_access(var, from_external_file) ==
    IF var.access_modifier = PUBLIC THEN TRUE ELSE ~from_external_file

\* Environment(enclosing): a new object in the heap; its index is its identity.
\* enclosing = 0 stands for None.
Environment(s, enclosing) ==
    [s EXCEPT !.envs = Append(@, [enclosing |-> enclosing, values |-> NoValues])]

LastEnv(s) == Len(s.envs)

define(s, env, name, value, access) ==
    [s EXCEPT !.envs[env].values = (name :> Variable(value, access)) @@ @]

\* An assignment that binds the name in the current scope, as define does,
\* instead of walking the chain as Environment.assign does.
assign_in_current_scope(s, env, name, value, from_external_file) ==
    Ok(define(s, env, name, value, PRIVATE), Null)

RECURSIVE get(_, _, _, _)
get(s, env, name, from_external_file) ==
    IF name \in DOMAIN s.envs[env].values
    THEN IF can_access(s.envs[env].values[name], from_external_file)
         THEN Ok(s, s.envs[env].values[name].value)
         ELSE Raise(s, from_simple("AccessError", "LAP4002"))
    ELSE IF s.envs[env].enclosing # 0
    THEN get(s, s.envs[env].enclosing, name, from_external_file)
    ELSE Raise(s, from_simple("RuntimeError", "LAP4001"))

RECURSIVE assign(_, _, _, _, _)
assign(s, env, name, value, from_external_file) ==
    IF name \in DOMAIN s.envs[env].values
    THEN IF can_access(s.envs[env].values[name], from_external_file)
         THEN Ok([s EXCEPT !.envs[env].values[name].value = value], Null)
         ELSE Raise(s, from_simple("AccessError", "LAP4002"))
    ELSE IF s.envs[env].enclosing # 0
    THEN assign(s, s.envs[env].enclosing, name, value, from_external_file)
    ELSE Raise(s, from_simple("RuntimeError", "LAP4001"))

get_all_public(s, env) ==
    {n \in DOMAIN s.envs[env].values : s.envs[env].values[n].access_modifier = PUBLIC}

-----------------------------------------------------------------------------
(* AST nodes (src/ast_nodes.py).  An absent optional child is NoExpr or    *)
(* NoStmt; an absent name (catch variable, variadic parameter) is "".      *)

NoExpr == [e |-> "None"]

NoStmt == [k |-> "None"]

LiteralExpression(value) == [e |-> "Literal", value |-> value]

IdentifierExpression(name) == [e |-> "Identifier", name |-> name]

ThisExpression == [e |-> "This"]

CallExpression(callee, arguments) == [e |-> "Call", callee |-> callee, arguments |-> arguments]

GetExpression(object, name) == [e |-> "Get", object |-> object, name |-> name]

SetExpression(object, name, value) == [e |-> "Set", object |-> object, name |-> name, value |-> value]

AssignmentExpression(name, value) == [e |-> "Assignment", name |-> name, value |-> value]

ArrayExpression(elements) == [e |-> "Array", elements |-> elements]

\* pairs: a sequence of <<key expression, value expression>>
DictionaryExpression(pairs) == [e |-> "Dictionary", pairs |-> pairs]

BinaryExpression(left, operator, right) ==
    [e |-> "Binary", left |-> left, operator |-> operator, right |-> right]

ExpressionStatement(expression) == [k |-> "Expression", expression |-> expression]

VarStatement(name, initializer, access) ==
    [k |-> "Var", name |-> name, initializer |-> initializer, access_modifier |-> access]

BlockStatement(statements) == [k |-> "Block", statements |-> statements]

FunctionStatement(name, params, body, access, variadic_param) ==
    [k |-> "Function", name |-> name, params |-> params, body |-> body,
     access_modifier |-> access, variadic_param |-> variadic_param]

ClassStatement(name, methods, constructor, access) ==
    [k |-> "Class", name |-> name, methods |-> methods, constructor |-> constructor,
     access_modifier |-> access]

ElifBranch(condition, body) == [condition |-> condition, body |-> body]

IfStatement(condition, then_branch, else_branch, elif_branches) ==
    [k |-> "If", condition |-> condition, then_branch |-> then_branch,
     else_branch |-> else_branch, elif_branches |-> elif_branches]

WhileStatement(condition, body) == [k |-> "While", condition |-> condition, body |-> body]

ForStatement(variable, iterable, body) ==
    [k |-> "For", variable |-> variable, iterable |-> iterable, body |-> body]

ReturnStatement(value) == [k |-> "Return", value |-> value]

BreakStatement == [k |-> "Break"]

ContinueStatement == [k |-> "Continue"]

CatchClause(variable, body) == [variable |-> variable, body |-> body]

TryStatement(try_body, catch_clauses, finally_body) ==
    [k |-> "Try", try_body |-> try_body, catch_clauses |-> catch_clauses,
     finally_body |-> finally_body]

CaseClause(values, body, is_default) ==
    [values |-> values, body |-> body, is_default |-> is_default]

SwitchStatement(expression, cases) == [k |-> "Switch", expression |-> expression, cases |-> cases]

\* imports = <<>> stands for None (no `use` clause): the parser never builds
\* an empty list, it appends the first name as soon as it has seen `use`.
PackageStatement(path, imports) == [k |-> "Package", path |-> path, imports |-> imports]

-----------------------------------------------------------------------------
(* The evaluator (src/interpreter.py).  The state s threaded through it:   *)
(*   envs           heap of Environment objects                            *)
(*   instances      heap of LapisInstance objects (klass, fields)          *)
(*   out            standard output: the argument list of each print call  *)
(*   evaluated      one entry per module handed to Interpreter.interpret   *)
(*                  by a package statement, in order: its resolved path    *)
(*                  and the globals of the interpreter that ran it         *)
(*   environment, globals, imported_files   fields of the Interpreter that *)
(*                  is running                                             *)
(*   depth          nested package imports in progress on the host stack   *)

\* Interpreter.evaluate and Interpreter.execute are the two entries of the walk
\* every other method goes through; visit_expression and visit_statement, at
\* the end of this section, are what they dispatch to.
RECURSIVE dispatch(_, _, _)

evaluate(expr, s) == dispatch("evaluate", expr, s)

execute(stmt, s) == dispatch("execute", stmt, s)

RECURSIVE execute_statements(_, _)
execute_statements(statements, s) ==
    IF statements = <<>> THEN Ok(s, Null)
    ELSE LET r == execute(Head(statements), s)
         IN  IF r.k # "ok" THEN r ELSE execute_statements(Tail(statements), r.s)

\* A block that leaves the interpreter in the block's environment.
execute_block_without_restore(statements, environment, s) ==
    execute_statements(statements, [s EXCEPT !.environment = environment])

\* previous = self.environment; try: ... finally: self.environment = previous
execute_block(statements, environment, s) ==
    LET previous == s.environment
        r == execute_statements(statements, [s EXCEPT !.environment = environment])
    IN  [r EXCEPT !.s.environment = previous]

RECURSIVE evaluate_list(_, _)
evaluate_list(exprs, s) ==
    IF exprs = <<>> THEN Ok(s, <<>>)
    ELSE LET h == evaluate(Head(exprs), s)
         IN  IF h.k # "ok" THEN h
             ELSE LET r == evaluate_list(Tail(exprs), h.s)
                  IN  IF r.k # "ok" THEN r ELSE Ok(r.s, <<h.v>> \o r.v)

is_truthy(obj) ==
    CASE obj.t = "null" -> FALSE
      [] obj.t = "bool" -> obj.v
      [] obj.t = "num" -> obj.v # 0
      [] obj.t = "float" -> obj.n # 0
      [] obj.t = "str" -> obj.v # ""
      [] obj.t \in {"arr", "dict"} -> Len(obj.v) > 0
      [] OTHER -> TRUE

\* The names each host object answers to (its self.functions table).
HostFunctions(module) ==
    CASE module = "Console" -> {"input", "number", "print", "error"}
      [] module = "Math" -> {"sqrt", "abs", "floor", "ceil"}
      [] module = "File" -> {"read", "write", "append", "exists", "delete", "list"}

HostFunction_arity(f) ==
    CASE f.module = "Console" /\ f.name \in {"print", "input", "number"} -> -1
      [] f.module = "Console" /\ f.name = "error" -> 1
      [] f.module = "Math" -> 1

\* isinstance(x, (int, float)): Python's bool is a subclass of int.
is_number(x) == x.t \in {"num", "bool", "float"}

number_value(x) == IF x.t = "bool" THEN (IF x.v THEN 1 ELSE 0) ELSE x.v

numerator(x) == IF x.t = "float" THEN x.n ELSE number_value(x)

denominator(x) == IF x.t = "float" THEN x.d ELSE 1

\* ConsolePrintFunction.call, ConsoleErrorFunction.call, MathAbsFunction.call
HostFunction_call(f, arguments, s) ==
    CASE f.module = "Console" /\ f.name = "print" ->
            Ok([s EXCEPT !.out = Append(@, arguments)], Null)
      [] f.module = "Console" /\ f.name = "error" ->
            Raise(s, Exc("LapisRuntimeException", ""))
      [] f.module = "Math" /\ f.name = "abs" ->
            IF ~is_number(arguments[1]) THEN Raise(s, RuntimeError_str)
            ELSE IF arguments[1].t = "float"
            THEN Ok(s, Float(IF arguments[1].n < 0 THEN -arguments[1].n
                             ELSE arguments[1].n, arguments[1].d))
            ELSE Ok(s, Num(IF number_value(arguments[1]) < 0
                           THEN -number_value(arguments[1])
                           ELSE number_value(arguments[1])))

\* CallableFunction.arity
LapisFunction_arity(f) ==
    IF f.declaration.variadic_param # "" THEN -1 ELSE Len(f.declaration.params)

\* LapisClass.find_method: the function value, or Null for None
find_method(klass, name) ==
    IF name \in DOMAIN klass.methods THEN klass.methods[name] ELSE Null

LapisClass_arity(klass) ==
    IF find_method(klass, "init") = Null THEN 0
    ELSE LapisFunction_arity(find_method(klass, "init"))

has_call(callee) == callee.t \in {"LapisFunction", "BoundMethod", "LapisClass", "HostFunction"}

arity(callee) ==
    CASE callee.t = "LapisFunction" -> LapisFunction_arity(callee)
      [] callee.t = "BoundMethod" -> LapisFunction_arity(callee.method)
      [] callee.t = "LapisClass" -> LapisClass_arity(callee)
      [] callee.t = "HostFunction" -> HostFunction_arity(callee)

\* for i, param in enumerate(params): environment.define(param,
\*     arguments[i] if i < len(arguments) else None)
RECURSIVE bind_params(_, _, _, _, _)
bind_params(s, env, params, arguments, i) ==
    IF i > Len(params) THEN s
    ELSE bind_params(define(s, env, params[i],
                            IF i <= Len(arguments) THEN arguments[i] ELSE Null, PRIVATE),
                     env, params, arguments, i + 1)

\* arguments[fixed_count:] if len(arguments) > fixed_count else []
rest_arguments(arguments, fixed_count) ==
    IF Len(arguments) > fixed_count
    THEN SubSeq(arguments, fixed_count + 1, Len(arguments))
    ELSE <<>>

\* A call whose environment is enclosed by the caller's current environment
\* instead of the function's closure.
LapisFunction_bind_in_caller(f, arguments, s) ==
    LET s1 == Environment(s, s.environment)
        env == LastEnv(s1)
    IN  bind_params(s1, env, f.declaration.params, arguments, 1)

\* LapisFunction.call: the environment of the call, parameters bound
LapisFunction_bind(f, arguments, s) ==
    LET s1 == Environment(s, f.closure)
        env == LastEnv(s1)
        s2 == bind_params(s1, env, f.declaration.params, arguments, 1)
    IN  IF f.declaration.variadic_param # ""
        THEN define(s2, env, f.declaration.variadic_param,
                    Arr(rest_arguments(arguments, Len(f.declaration.params))), PRIVATE)
        ELSE s2

LapisFunction_call(f, arguments, s) ==
    LET s1 == LapisFunction_bind(f, arguments, s)
        r == execute_block(f.declaration.body, LastEnv(s1), s1)
    IN  CASE r.k = "Return" ->
                IF f.is_initializer THEN get(r.s, f.closure, "this", FALSE) ELSE Ok(r.s, r.v)
          [] r.k = "ok" ->
                IF f.is_initializer THEN get(r.s, f.closure, "this", FALSE) ELSE Ok(r.s, Null)
          [] OTHER -> r

\* BoundMethod.call: the environment of the call, `this` and parameters bound
BoundMethod_bind(b, arguments, s) ==
    LET s1 == Environment(s, b.method.closure)
        env == LastEnv(s1)
        s2 == define(s1, env, "this", LapisInstance(b.instance), PRIVATE)
    IN  bind_params(s2, env, b.method.declaration.params, arguments, 1)

\* BoundMethod.call, lines 223-227: the body is executed and whatever it
\* raises (a return, a break, an error) is swallowed by the bare except.
BoundMethod_first_execution(b, env, s) ==
    execute_block(b.method.declaration.body, env, s).s

BoundMethod_call(b, arguments, s) ==
    LET s1 == BoundMethod_bind(b, arguments, s)
        env == LastEnv(s1)
        s2 == BoundMethod_first_execution(b, env, s1)
        r == execute_block(b.method.declaration.body, env, s2)
    IN  CASE r.k = "Return" ->
                Ok(r.s, IF b.method.is_initializer THEN LapisInstance(b.instance) ELSE r.v)
          [] r.k = "ok" ->
                Ok(r.s, IF b.method.is_initializer THEN LapisInstance(b.instance) ELSE Null)
          [] OTHER -> r

LapisClass_call(klass, arguments, s) ==
    LET s1 == [s EXCEPT !.instances = Append(@, [klass |-> klass, fields |-> NoValues])]
        instance == Len(s1.instances)
        initializer == find_method(klass, "init")
    IN  IF initializer # Null
        THEN LET r == BoundMethod_call(BoundMethod(instance, initializer), arguments, s1)
             IN  IF r.k = "ok" THEN Ok(r.s, LapisInstance(instance)) ELSE r
        ELSE Ok(s1, LapisInstance(instance))

call(callee, arguments, s) ==
    CASE callee.t = "LapisFunction" -> LapisFunction_call(callee, arguments, s)
      [] callee.t = "BoundMethod" -> BoundMethod_call(callee, arguments, s)
      [] callee.t = "LapisClass" -> LapisClass_call(callee, arguments, s)
      [] callee.t = "HostFunction" -> HostFunction_call(callee, arguments, s)

\* The arity check of evaluate_call_expression (line 993).
arity_accepts(callee, arguments) ==
    arity(callee) = -1 \/ Len(arguments) = arity(callee)

\* What the failed arity check raises (line 994).
arity_error == RuntimeError_str

evaluate_call_expression(expr, s) ==
    LET c == evaluate(expr.callee, s)
    IN  IF c.k # "ok" THEN c
        ELSE LET a == evaluate_list(expr.arguments, c.s)
             IN  IF a.k # "ok" THEN a
                 ELSE IF ~has_call(c.v) THEN Raise(a.s, RuntimeError_str)
                 ELSE IF ~arity_accepts(c.v, a.v) THEN Raise(a.s, arity_error)
                 ELSE call(c.v, a.v, a.s)

\* LapisInstance.get
LapisInstance_get(s, id, name) ==
    IF name \in DOMAIN s.instances[id].fields THEN Ok(s, s.instances[id].fields[name])
    ELSE IF find_method(s.instances[id].klass, name) # Null
    THEN Ok(s, BoundMethod(id, find_method(s.instances[id].klass, name)))
    ELSE Raise(s, from_simple("RuntimeError", "LAP3005"))

evaluate_get_expression(expr, o) ==
    CASE o.v.t = "LapisInstance" -> LapisInstance_get(o.s, o.v.id, expr.name)
      [] o.v.t = "HostModule" ->
            IF expr.name \in HostFunctions(o.v.name)
            THEN Ok(o.s, HostFunction(o.v.name, expr.name))
            ELSE Raise(o.s, RuntimeError_str)
      [] o.v.t \in {"null", "LapisFunction", "LapisClass", "BoundMethod", "HostFunction",
                    "LapisRuntimeException"} ->
            Raise(o.s, RuntimeError_str)

evaluate_set_expression(expr, o) ==
    IF o.v.t = "LapisInstance"
    THEN LET v == evaluate(expr.value, o.s)
         IN  IF v.k # "ok" THEN v
             ELSE Ok([v.s EXCEPT !.instances[o.v.id].fields = (expr.name :> v.v) @@ @], v.v)
    ELSE Raise(o.s, RuntimeError_str)

\* The span attribute of an expression node as the parser builds it: "Span"
\* for a Span object, "None" where the constructor is called without one
\* (comparison, equality and ** in parser.py 508-527 and 565-574; this),
\* "absent" for the node classes whose __init__ never calls Expression.__init__.
span(expr) ==
    CASE expr.e \in {"Literal", "Identifier", "Call"} -> "Span"
      [] expr.e = "Binary" ->
            IF expr.operator \in {"+", "-", "*", "/", "%"} THEN "Span" ELSE "None"
      [] expr.e = "This" -> "None"
      [] OTHER -> "absent"

\* _get_safe_spans followed by "if expr_span and left_span and right_span"
safe_spans(expr) ==
    span(expr) = "Span" /\ span(expr.left) = "Span" /\ span(expr.right) = "Span"

\* "if expr.span and expr.left.span and expr.right.span": reading the span of
\* a node that has none raises Python's AttributeError.
direct_spans(expr) ==
    IF span(expr) # "Span" THEN "falsy"
    ELSE IF span(expr.left) = "absent" THEN "AttributeError"
    ELSE IF span(expr.left) = "None" THEN "falsy"
    ELSE IF span(expr.right) = "absent" THEN "AttributeError"
    ELSE IF span(expr.right) = "None" THEN "falsy"
    ELSE "truthy"

\* str(float) for a fraction with a finite decimal expansion
RECURSIVE fraction_digits(_, _)
fraction_digits(r, d) ==
    IF r = 0 THEN ""
    ELSE ToString((r * 10) \div d) \o fraction_digits((r * 10) % d, d)

float_str(x) ==
    LET a == IF x.n < 0 THEN -x.n ELSE x.n
    IN  (IF x.n < 0 THEN "-" ELSE "") \o ToString(a \div x.d) \o "."
        \o (IF a % x.d = 0 THEN "0" ELSE fraction_digits(a % x.d, x.d))

\* _to_lapis_string (lines 1517-1532); str(obj) of the remaining objects is
\* kept as the name of their class.
RECURSIVE _to_lapis_string(_)
join(elements, i) ==
    IF i > Len(elements) THEN ""
    ELSE IF i = 1 THEN elements[1]
    ELSE ", " \o elements[i]

_to_lapis_string(obj) ==
    CASE obj.t = "null" -> "null"
      [] obj.t = "bool" -> IF obj.v THEN "true" ELSE "false"
      [] obj.t = "str" -> obj.v
      [] obj.t = "num" -> ToString(obj.v)
      [] obj.t = "float" -> float_str(obj)
      [] obj.t = "arr" ->
            LET elements == [i \in 1..Len(obj.v) |-> _to_lapis_string(obj.v[i])]
                F[i \in 0..Len(elements)] ==
                    IF i = 0 THEN "" ELSE F[i - 1] \o join(elements, i)
            IN  "[" \o F[Len(elements)] \o "]"
      [] obj.t = "dict" ->
            LET pairs == [i \in 1..Len(obj.v) |->
                            _to_lapis_string(obj.v[i].key) \o ": "
                                \o _to_lapis_string(obj.v[i].value)]
                F[i \in 0..Len(pairs)] ==
                    IF i = 0 THEN "" ELSE F[i - 1] \o join(pairs, i)
            IN  "{" \o F[Len(pairs)] \o "}"
      [] OTHER -> "<" \o obj.t \o ">"

\* Python's == on runtime values (is_equal, lines 1201-1203): numbers and
\* booleans compare by value, lists element by element, None only to None,
\* every other pair of objects by identity.
\* An equality that is not symmetric: null on the left equals everything.
is_equal_from_null(a, b) == a.t = "null" \/ (a.t = b.t /\ a = b)

RECURSIVE is_equal(_, _)
is_equal(a, b) ==
    IF is_number(a) /\ is_number(b)
    THEN numerator(a) * denominator(b) = numerator(b) * denominator(a)
    ELSE IF a.t = "arr" /\ b.t = "arr"
    THEN /\ Len(a.v) = Len(b.v)
         /\ \A i \in 1..Len(a.v) : is_equal(a.v[i], b.v[i])
    ELSE IF a.t = "dict" /\ b.t = "dict"
    THEN /\ Len(a.v) = Len(b.v)
         /\ \A i \in 1..Len(a.v) : \E j \in 1..Len(b.v) :
                /\ is_equal(a.v[i].key, b.v[j].key)
                /\ is_equal(a.v[i].value, b.v[j].value)
    ELSE a.t = b.t /\ a = b

\* The strings the programs of this module compare, in code point order.
StringsInOrder == <<"", "1", "a", "ab", "b">>

string_index(x) == CHOOSE i \in 1..Len(StringsInOrder) : StringsInOrder[i] = x

\* Python's <: "less", "equal", "greater", or "TypeError" where the operand
\* types do not support ordering.
RECURSIVE python_order(_, _)
python_order(a, b) ==
    IF is_number(a) /\ is_number(b)
    THEN LET x == numerator(a) * denominator(b)
             y == numerator(b) * denominator(a)
         IN  IF x < y THEN "less" ELSE IF x = y THEN "equal" ELSE "greater"
    ELSE IF a.t = "str" /\ b.t = "str"
    THEN IF string_index(a.v) < string_index(b.v) THEN "less"
         ELSE IF a.v = b.v THEN "equal" ELSE "greater"
    ELSE IF a.t = "arr" /\ b.t = "arr"
    THEN IF a.v = <<>> \/ b.v = <<>>
         THEN IF Len(a.v) < Len(b.v) THEN "less"
              ELSE IF Len(a.v) = Len(b.v) THEN "equal" ELSE "greater"
         ELSE IF is_equal(Head(a.v), Head(b.v))
         THEN python_order(Arr(Tail(a.v)), Arr(Tail(b.v)))
         ELSE python_order(Head(a.v), Head(b.v))
    ELSE "TypeError"

python_compare(operator, a, b, s) ==
    LET o == python_order(a, b)
    IN  IF o = "TypeError" THEN Raise(s, Exc("builtins.TypeError", ""))
        ELSE Ok(s, Bool(CASE operator = "<" -> o = "less"
                          [] operator = "<=" -> o \in {"less", "equal"}
                          [] operator = ">" -> o = "greater"
                          [] operator = ">=" -> o \in {"greater", "equal"}))

RECURSIVE Power(_, _)
Power(b, e) == IF e = 0 THEN 1 ELSE b * Power(b, e - 1)

python_mod(x, y) == IF y > 0 THEN x % y ELSE -((-x) % (-y))

RECURSIVE repeat(_, _)
repeat(x, n) ==
    IF n <= 0 THEN (IF x.t = "str" THEN Str("") ELSE Arr(<<>>))
    ELSE LET r == repeat(x, n - 1)
         IN  IF x.t = "str" THEN Str(x.v \o r.v) ELSE Arr(x.v \o r.v)

\* Python's -, *, /, **, % on two runtime values.
python_arithmetic(operator, left, right, s) ==
    LET a == numerator(left)
        b == denominator(left)
        c == numerator(right)
        d == denominator(right)
        float == left.t = "float" \/ right.t = "float"
        number(n, m) == IF float THEN Float(n, m) ELSE Num(n)
        signed(n, m) == IF m < 0 THEN Float(-n, -m) ELSE Float(n, m)
        integer(x) == x.t \in {"num", "bool"}
    IN  IF ~(is_number(left) /\ is_number(right))
        THEN IF operator = "*" /\ left.t \in {"str", "arr"} /\ integer(right)
             THEN Ok(s, repeat(left, number_value(right)))
             ELSE IF operator = "*" /\ right.t \in {"str", "arr"} /\ integer(left)
             THEN Ok(s, repeat(right, number_value(left)))
             ELSE Raise(s, Exc("builtins.TypeError", ""))
        ELSE CASE operator = "+" -> Ok(s, number(a * d + c * b, b * d))
               [] operator = "-" -> Ok(s, number(a * d - c * b, b * d))
               [] operator = "*" -> Ok(s, number(a * c, b * d))
               [] operator = "/" ->
                    IF c = 0 THEN Raise(s, Exc("ZeroDivisionError", ""))
                    ELSE Ok(s, signed(a * d, b * c))
               [] operator = "%" ->
                    IF c = 0 THEN Raise(s, Exc("ZeroDivisionError", ""))
                    ELSE Ok(s, number(python_mod(a * d, c * b), b * d))
               [] operator = "**" ->
                    IF d = 1 /\ c >= 0
                    THEN Ok(s, number(Power(a, c), Power(b, c)))
                    ELSE IF d = 1
                    THEN IF a = 0 THEN Raise(s, Exc("ZeroDivisionError", ""))
                         ELSE Ok(s, signed(Power(b, -c), Power(a, -c)))
                    ELSE IF a = 0 THEN Ok(s, Float(0, 1))
                    ELSE IF a = b THEN Ok(s, Float(1, 1))
                    ELSE Ok(s, InexactFloat(left, right))

\* evaluate_binary_expression (lines 817-962) once both operands have values
binary_operation(expr, left, right, s) ==
    LET numeric == is_number(left) /\ is_number(right)
        type_error == Raise(s, Exc("TypeError", "LAP3001"))
        attribute_error == Raise(s, Exc("AttributeError", ""))
        checked(r) ==
            IF numeric \/ direct_spans(expr) = "falsy" THEN r
            ELSE IF direct_spans(expr) = "AttributeError" THEN attribute_error
            ELSE type_error
    IN  CASE expr.operator = "+" ->
                IF numeric THEN python_arithmetic("+", left, right, s)
                ELSE IF left.t = "str" \/ right.t = "str"
                THEN Ok(s, Str(_to_lapis_string(left) \o _to_lapis_string(right)))
                ELSE type_error
          [] expr.operator = "-" ->
                IF ~numeric /\ safe_spans(expr) THEN type_error
                ELSE python_arithmetic("-", left, right, s)
          [] expr.operator = "/" ->
                LET c == checked(Ok(s, Null))
                IN  IF c.k # "ok" THEN c
                    ELSE IF is_number(right) /\ numerator(right) = 0
                    THEN Raise(s, Exc("RuntimeError", "LAP3008"))
                    ELSE python_arithmetic("/", left, right, s)
          [] expr.operator \in {"*", "**", "%"} ->
                checked(python_arithmetic(expr.operator, left, right, s))
          [] expr.operator \in {">", ">=", "<", "<="} ->
                checked(python_compare(expr.operator, left, right, s))
          [] expr.operator = "!=" -> Ok(s, Bool(~is_equal(left, right)))
          [] expr.operator = "==" -> Ok(s, Bool(is_equal(left, right)))

\* result[key] = value: a key equal to one already present (1, 1.0 and true
\* are one key) keeps the old key object and replaces its value; a list or a
\* dict is unhashable.
dict_setitem(items, key, value) ==
    LET same == {i \in 1..Len(items) : is_equal(items[i].key, key)}
    IN  IF same = {} THEN Append(items, [key |-> key, value |-> value])
        ELSE [i \in 1..Len(items) |->
                 IF i \in same THEN [key |-> items[i].key, value |-> value]
                 ELSE items[i]]

\* evaluate_dictionary_expression (lines 1081-1088)
RECURSIVE evaluate_dictionary_pairs(_, _, _, _)
evaluate_dictionary_pairs(pairs, i, result, s) ==
    IF i > Len(pairs) THEN Ok(s, Dict(result))
    ELSE LET key == evaluate(pairs[i][1], s)
         IN  IF key.k # "ok" THEN key
             ELSE LET value == evaluate(pairs[i][2], key.s)
                  IN  IF value.k # "ok" THEN value
                      ELSE IF key.v.t \in {"arr", "dict"}
                      THEN Raise(value.s, Exc("builtins.TypeError", ""))
                      ELSE evaluate_dictionary_pairs(pairs, i + 1,
                               dict_setitem(result, key.v, value.v), value.s)

evaluate_binary_expression(expr, s) ==
    LET left == evaluate(expr.left, s)
    IN  IF left.k # "ok" THEN left
        ELSE LET right == evaluate(expr.right, left.s)
             IN  IF right.k # "ok" THEN right
                 ELSE binary_operation(expr, left.v, right.v, right.s)

visit_expression(expr, s) ==
    CASE expr.e = "Literal" -> Ok(s, expr.value)
      [] expr.e = "Identifier" ->
            LET r == get(s, s.environment, expr.name, FALSE)
            IN  IF r.k = "ok" THEN r ELSE Raise(s, Exc("RuntimeError", "LAP4001"))
      [] expr.e = "This" -> get(s, s.environment, "this", FALSE)
      [] expr.e = "Call" -> evaluate_call_expression(expr, s)
      [] expr.e = "Get" ->
            LET o == evaluate(expr.object, s)
            IN  IF o.k # "ok" THEN o ELSE evaluate_get_expression(expr, o)
      [] expr.e = "Set" ->
            LET o == evaluate(expr.object, s)
            IN  IF o.k # "ok" THEN o ELSE evaluate_set_expression(expr, o)
      [] expr.e = "Assignment" ->
            LET v == evaluate(expr.value, s)
            IN  IF v.k # "ok" THEN v
                ELSE LET a == assign(v.s, v.s.environment, expr.name, v.v, FALSE)
                     IN  IF a.k # "ok" THEN a ELSE Ok(a.s, v.v)
      [] expr.e = "Array" ->
            LET r == evaluate_list(expr.elements, s)
            IN  IF r.k # "ok" THEN r ELSE Ok(r.s, Arr(r.v))
      [] expr.e = "Binary" -> evaluate_binary_expression(expr, s)
      [] expr.e = "Dictionary" -> evaluate_dictionary_pairs(expr.pairs, 1, <<>>, s)

-----------------------------------------------------------------------------
(* Statements *)

execute_var_statement(stmt, s) ==
    IF stmt.initializer = NoExpr
    THEN Ok(define(s, s.environment, stmt.name, Null, stmt.access_modifier), Null)
    ELSE LET v == evaluate(stmt.initializer, s)
         IN  IF v.k # "ok" THEN v
             ELSE Ok(define(v.s, v.s.environment, stmt.name, v.v, stmt.access_modifier), Null)

execute_block_statement(stmt, s) ==
    LET s1 == Environment(s, s.environment)
    IN  execute_block(stmt.statements, LastEnv(s1), s1)

execute_function_statement(stmt, s) ==
    Ok(define(s, s.environment, stmt.name, LapisFunction(stmt, s.environment, FALSE),
              stmt.access_modifier), Null)

\* methods[method.name] = function, in order; then methods["init"]
RECURSIVE class_methods(_, _, _)
class_methods(methods, env, i) ==
    IF i = 0 THEN NoValues
    ELSE (methods[i].name :> LapisFunction(methods[i], env, FALSE))
             @@ class_methods(methods, env, i - 1)

execute_class_statement(stmt, s) ==
    LET methods == class_methods(stmt.methods, s.environment, Len(stmt.methods))
        all == IF stmt.constructor # NoStmt
               THEN ("init" :> LapisFunction(stmt.constructor, s.environment, TRUE)) @@ methods
               ELSE methods
    IN  Ok(define(s, s.environment, stmt.name,
                  LapisClass(stmt.name, all, stmt.access_modifier), stmt.access_modifier), Null)

RECURSIVE execute_elif_branches(_, _, _)
execute_elif_branches(stmt, i, s) ==
    IF i > Len(stmt.elif_branches)
    THEN IF stmt.else_branch # NoStmt THEN execute(stmt.else_branch, s) ELSE Ok(s, Null)
    ELSE LET c == evaluate(stmt.elif_branches[i].condition, s)
         IN  IF c.k # "ok" THEN c
             ELSE IF is_truthy(c.v) THEN execute(stmt.elif_branches[i].body, c.s)
             ELSE execute_elif_branches(stmt, i + 1, c.s)

execute_if_statement(stmt, s) ==
    LET c == evaluate(stmt.condition, s)
    IN  IF c.k # "ok" THEN c
        ELSE IF is_truthy(c.v) THEN execute(stmt.then_branch, c.s)
        ELSE execute_elif_branches(stmt, 1, c.s)

RECURSIVE execute_while_statement(_, _)
execute_while_statement(stmt, s) ==
    LET c == evaluate(stmt.condition, s)
    IN  IF c.k # "ok" THEN c
        ELSE IF ~is_truthy(c.v) THEN Ok(c.s, Null)
        ELSE LET r == execute(stmt.body, c.s)
             IN  CASE r.k = "Break" -> Ok(r.s, Null)
                   [] r.k \in {"ok", "Continue"} -> execute_while_statement(stmt, r.s)
                   [] OTHER -> r

\* A for loop that binds its variable in the current environment and runs
\* every pass there.
RECURSIVE execute_for_items_in_place(_, _, _)
execute_for_items_in_place(stmt, items, s) ==
    IF items = <<>> THEN Ok(s, Null)
    ELSE LET s2 == define(s, s.environment, stmt.variable, Head(items), PRIVATE)
             r == execute(stmt.body, s2)
         IN  CASE r.k = "Break" -> Ok(r.s, Null)
               [] r.k \in {"ok", "Continue"} ->
                      execute_for_items_in_place(stmt, Tail(items), r.s)
               [] OTHER -> r

\* One pass of `for item in iterable` per element of items.
RECURSIVE execute_for_items(_, _, _)
execute_for_items(stmt, items, s) ==
    IF items = <<>> THEN Ok(s, Null)
    ELSE LET s1 == Environment(s, s.environment)
             loop_env == LastEnv(s1)
             s2 == define(s1, loop_env, stmt.variable, Head(items), PRIVATE)
             previous == s.environment
             r0 == execute(stmt.body, [s2 EXCEPT !.environment = loop_env])
             r == [r0 EXCEPT !.s.environment = previous]
         IN  CASE r.k = "Break" -> Ok(r.s, Null)
               [] r.k \in {"ok", "Continue"} -> execute_for_items(stmt, Tail(items), r.s)
               [] OTHER -> r

execute_for_statement(stmt, s) ==
    LET it == evaluate(stmt.iterable, s)
    IN  IF it.k # "ok" THEN it
        ELSE IF it.v.t = "arr" THEN execute_for_items(stmt, it.v.v, it.s)
        ELSE Raise(it.s, RuntimeError_str)

execute_return_statement(stmt, s) ==
    IF stmt.value = NoExpr THEN Transfer(s, "Return", Null)
    ELSE LET v == evaluate(stmt.value, s)
         IN  IF v.k # "ok" THEN v ELSE Transfer(v.s, "Return", v.v)

\* Lines 603-605: a return, break or continue raised by the try body is
\* re-raised at once from the except clause.
try_body_transfer(stmt, b) == b

\* Lines 610-638: the loop over the catch clauses runs the body of the first
\* clause and leaves the loop; with a variable the body runs in a child
\* environment that binds it.  What the body raises propagates from here.
execute_catch_clause(catch_clause, e, s) ==
    IF catch_clause.variable # ""
    THEN LET s1 == Environment(s, s.environment)
             catch_env == LastEnv(s1)
             s2 == define(s1, catch_env, catch_clause.variable,
                          LapisRuntimeException(e), PRIVATE)
         IN  execute_block(catch_clause.body, catch_env, s2)
    ELSE execute_statements(catch_clause.body, s)

\* Lines 640-647: the finally body, then the re-raise of an unhandled exception.
\* caught_exception = Null stands for None.
execute_finally(stmt, s, caught_exception, exception_handled) ==
    LET f == IF stmt.finally_body # <<>>
             THEN execute_statements(stmt.finally_body, s)
             ELSE Ok(s, Null)
    IN  IF f.k # "ok" THEN f
        ELSE IF caught_exception # Null /\ ~exception_handled
        THEN Raise(f.s, caught_exception)
        ELSE Ok(f.s, Null)

execute_try_statement(stmt, s) ==
    LET b == execute_statements(stmt.try_body, s)
    IN  CASE b.k \in ControlFlow -> try_body_transfer(stmt, b)
          [] b.k = "ok" -> execute_finally(stmt, b.s, Null, FALSE)
          [] b.k = "Exception" ->
                IF stmt.catch_clauses = <<>>
                THEN execute_finally(stmt, b.s, b.v, FALSE)
                ELSE LET c == execute_catch_clause(stmt.catch_clauses[1], b.v, b.s)
                     IN  IF c.k # "ok" THEN c
                         ELSE execute_finally(stmt, c.s, b.v, TRUE)

\* Two dictionary keys are one key when Python's == holds between them; keys
\* are hashable, so neither is a list or a dict.
same_key(a, b) ==
    IF is_number(a) /\ is_number(b)
    THEN numerator(a) * denominator(b) = numerator(b) * denominator(a)
    ELSE a.t = b.t /\ a = b

\* A comparison that tells true from 1, unlike _values_equal and ==.
values_equal_by_type(left, right) == left.t = right.t /\ left = right

RECURSIVE values_equal(_, _)
values_equal(left, right) ==
    IF left.t = "null" /\ right.t = "null" THEN TRUE
    ELSE IF left.t = "null" \/ right.t = "null" THEN FALSE
    ELSE IF left.t = "bool" /\ right.t = "bool" THEN left.v = right.v
    ELSE IF is_number(left) /\ is_number(right)
    THEN numerator(left) * denominator(right) = numerator(right) * denominator(left)
    ELSE IF left.t = "str" /\ right.t = "str" THEN left.v = right.v
    ELSE IF left.t = "arr" /\ right.t = "arr"
    THEN /\ Len(left.v) = Len(right.v)
         /\ \A i \in 1..Len(left.v) : values_equal(left.v[i], right.v[i])
    ELSE IF left.t = "dict" /\ right.t = "dict"
    THEN /\ Len(left.v) = Len(right.v)
         /\ \A i \in 1..Len(left.v) : \E j \in 1..Len(right.v) :
                /\ same_key(left.v[i].key, right.v[j].key)
                /\ values_equal(left.v[i].value, right.v[j].value)
    ELSE left.t = right.t /\ left = right

\* Lines 656-667: the scan for the first case with an equal value.  i is the
\* case, j the value within it; default_case is the index of the last default
\* clause passed, 0 for None.  The result carries matched_case (0 for None).
RECURSIVE find_case(_, _, _, _, _, _)
find_case(stmt, i, j, switch_value, default_case, s) ==
    IF i > Len(stmt.cases)
    THEN [r |-> Ok(s, Null), matched_case |-> 0, default_case |-> default_case]
    ELSE IF stmt.cases[i].is_default
    THEN find_case(stmt, i + 1, 1, switch_value, i, s)
    ELSE IF j > Len(stmt.cases[i].values)
    THEN find_case(stmt, i + 1, 1, switch_value, default_case, s)
    ELSE LET v == evaluate(stmt.cases[i].values[j], s)
         IN  IF v.k # "ok"
             THEN [r |-> v, matched_case |-> 0, default_case |-> default_case]
             ELSE IF values_equal(switch_value, v.v)
             THEN [r |-> Ok(v.s, Null), matched_case |-> i, default_case |-> default_case]
             ELSE find_case(stmt, i, j + 1, switch_value, default_case, v.s)

\* A switch statement that lets a break of the case body through to the
\* enclosing loop.
execute_switch_statement_without_break(stmt, s) ==
    LET d == evaluate(stmt.expression, s)
    IN  IF d.k # "ok" THEN d
        ELSE LET f == find_case(stmt, 1, 1, d.v, 0, d.s)
                 case_to_execute == IF f.matched_case # 0 THEN f.matched_case
                                    ELSE f.default_case
             IN  IF f.r.k # "ok" THEN f.r
                 ELSE IF case_to_execute = 0 THEN Ok(f.r.s, Null)
                 ELSE execute_statements(stmt.cases[case_to_execute].body, f.r.s)

execute_switch_statement(stmt, s) ==
    LET d == evaluate(stmt.expression, s)
    IN  IF d.k # "ok" THEN d
        ELSE LET f == find_case(stmt, 1, 1, d.v, 0, d.s)
                 case_to_execute == IF f.matched_case # 0 THEN f.matched_case
                                    ELSE f.default_case
             IN  IF f.r.k # "ok" THEN f.r
                 ELSE IF case_to_execute = 0 THEN Ok(f.r.s, Null)
                 ELSE LET r == execute_statements(stmt.cases[case_to_execute].body, f.r.s)
                      IN  IF r.k = "Break" THEN Ok(r.s, Null) ELSE r

-----------------------------------------------------------------------------
(* Modules: Interpreter.__init__, interpret, execute_package_statement *)

\* A path as written in a package statement is a prefix ("" for a bare
\* relative path, "./", or "/cwd/" for the absolute spelling of a file of the
\* working directory) and a file name.  os.path.abspath maps the two relative
\* spellings to the absolute one; an absolute path is returned as it is.
Path(prefix, name) == [prefix |-> prefix, name |-> name]

resolve_import_path(path) ==
    IF path.prefix = "./" THEN Path("/cwd/", path.name)
    ELSE IF path.prefix = "/cwd/" THEN path
    ELSE Path("/cwd/", path.name)

\* define_built_ins (lines 413-419)
define_built_ins(s, globals) ==
    LET s1 == define(s, globals, "Console", HostModule("Console"), PUBLIC)
        s2 == define(s1, globals, "Math", HostModule("Math"), PUBLIC)
        s3 == define(s2, globals, "File", HostModule("File"), PUBLIC)
    IN  define(s3, globals, "__lapis_native_py_call",
               HostFunction("", "__lapis_native_py_call"), PRIVATE)

\* Interpreter(): the fields of a new interpreter, over the heaps of s.
Interpreter(s) ==
    LET s1 == Environment(s, 0)
        globals == LastEnv(s1)
    IN  [define_built_ins(s1, globals) EXCEPT
            !.globals = globals, !.environment = globals, !.imported_files = {}]

LapisErrors == {"LexError", "ParseError", "TypeError", "RuntimeError", "ImportError", "AccessError"}

\* The except clauses of Interpreter.interpret (lines 426-442), applied to
\* what a top-level statement raised.
interpret_except(r) ==
    CASE r.k \in {"Break", "Continue"} -> Raise(r.s, from_simple("RuntimeError", "LAP9002"))
      [] r.k = "Exception" /\ r.v.cls \in LapisErrors -> r
      [] r.k = "Return" -> Raise(r.s, from_simple("RuntimeError", "LAP9001"))
      [] r.k = "Exception" -> Raise(r.s, from_simple("RuntimeError", "LAP9001"))

interpret(statements, s) ==
    LET r == execute_statements(statements, s)
    IN  IF r.k = "ok" THEN r ELSE interpret_except(r)

\* get_imported_symbols (lines 762-766): returns {} and defines nothing.
get_imported_symbols(s, file_path, imports) == Ok(s, Null)

\* Lines 708-710: every public symbol of the module, as a private binding.
RECURSIVE import_all_public(_, _, _, _)
import_all_public(s, imported_globals, names, env) ==
    IF names = {} THEN s
    ELSE LET n == CHOOSE x \in names : TRUE
         IN  import_all_public(
                 define(s, env, n, s.envs[imported_globals].values[n].value, PRIVATE),
                 imported_globals, names \ {n}, env)

\* Lines 713-728 with every listed name checked before any is defined
import_names_checked_first(s, imported_globals, imports, i, env) ==
    IF \E j \in i..Len(imports) : get(s, imported_globals, imports[j], TRUE).k # "ok"
    THEN Raise(s, from_simple("ImportError", "LAP4003"))
    ELSE Ok(import_all_public(s, imported_globals,
                              {imports[j] : j \in i..Len(imports)}, env), Null)

\* Lines 713-728: the listed names in order; the first that is missing or
\* private raises ImportError, the ones before it stay defined.
RECURSIVE import_names(_, _, _, _, _)
import_names(s, imported_globals, imports, i, env) ==
    IF i > Len(imports) THEN Ok(s, Null)
    ELSE LET v == get(s, imported_globals, imports[i], TRUE)
         IN  IF v.k # "ok" THEN Raise(s, from_simple("ImportError", "LAP4003"))
             ELSE import_names(define(s, env, imports[i], v.v, PRIVATE),
                               imported_globals, imports, i + 1, env)

\* A file whose text Lexer.tokenize rejects with a LexError (lines 696-697):
\* it has no statements to interpret.
Unlexable == <<[k |-> "LexError"]>>

\* The membership test of line 684 on the importer's own set.
already_imported(s, file_path) == file_path \in s.imported_files

\* Lines 691-748, the body of the try block and its except clauses.  The
\* module runs in a new Interpreter; the importer's fields are those of s.
\* Reading a file that does not exist raises FileNotFoundError; the host
\* stack running out (RecursionError) is an Exception as well: every
\* failure leaves as ImportError LAP4003.
import_file(stmt, file_path, s) ==
    IF file_path.name \notin DOMAIN files \/ s.depth >= MaxImportDepth
    THEN Raise(s, from_simple("ImportError", "LAP4003"))
    ELSE IF files[file_path.name] = Unlexable
    THEN Raise(s, from_simple("ImportError", "LAP4003"))
    ELSE LET imported_interpreter == Interpreter(s)
             imported_globals == imported_interpreter.globals
             s1 == [imported_interpreter EXCEPT
                        !.depth = s.depth + 1,
                        !.evaluated = Append(@, [file_path |-> file_path,
                                                 globals |-> imported_globals])]
             m == interpret(files[file_path.name], s1)
             back == [m.s EXCEPT !.globals = s.globals, !.environment = s.environment,
                                 !.imported_files = s.imported_files, !.depth = s.depth]
         IN  IF m.k # "ok" THEN Raise(back, from_simple("ImportError", "LAP4003"))
             ELSE IF stmt.imports = <<>>
             THEN Ok(import_all_public(back, imported_globals,
                                       get_all_public(back, imported_globals),
                                       back.environment), Null)
             ELSE import_names(back, imported_globals, stmt.imports, 1, back.environment)

\* execute_package_statement with the path recorded once the import is done
execute_package_statement_recording_success(stmt, s) ==
    LET file_path == resolve_import_path(stmt.path)
    IN  IF already_imported(s, file_path)
        THEN get_imported_symbols(s, file_path, stmt.imports)
        ELSE LET r == import_file(stmt, file_path, s)
             IN  IF r.k = "ok" THEN [r EXCEPT !.s.imported_files = @ \cup {file_path}]
                 ELSE r

execute_package_statement(stmt, s) ==
    LET file_path == resolve_import_path(stmt.path)
    IN  IF already_imported(s, file_path)
        THEN get_imported_symbols(s, file_path, stmt.imports)
        ELSE import_file(stmt, file_path,
                         [s EXCEPT !.imported_files = @ \cup {file_path}])

visit_statement(stmt, s) ==
    CASE stmt.k = "Expression" ->
            LET r == evaluate(stmt.expression, s)
            IN  IF r.k # "ok" THEN r ELSE Ok(r.s, Null)
      [] stmt.k = "Var" -> execute_var_statement(stmt, s)
      [] stmt.k = "Block" -> execute_block_statement(stmt, s)
      [] stmt.k = "Function" -> execute_function_statement(stmt, s)
      [] stmt.k = "Class" -> execute_class_statement(stmt, s)
      [] stmt.k = "If" -> execute_if_statement(stmt, s)
      [] stmt.k = "While" -> execute_while_statement(stmt, s)
      [] stmt.k = "For" -> execute_for_statement(stmt, s)
      [] stmt.k = "Return" -> execute_return_statement(stmt, s)
      [] stmt.k = "Break" -> Transfer(s, "Break", Null)
      [] stmt.k = "Continue" -> Transfer(s, "Continue", Null)
      [] stmt.k = "Try" -> execute_try_statement(stmt, s)
      [] stmt.k = "Switch" -> execute_switch_statement(stmt, s)
      [] stmt.k = "Package" -> execute_package_statement(stmt, s)

dispatch(method, node, s) ==
    IF method = "evaluate" THEN visit_expression(node, s) ELSE visit_statement(node, s)

-----------------------------------------------------------------------------
(* run_file (src/lapis.py): the main program, statement by statement *)

EmptyState ==
    [envs |-> <<>>, instances |-> <<>>, out |-> <<>>, evaluated |-> <<>>,
     environment |-> 0, globals |-> 0, imported_files |-> {}, depth |-> 0]

Running == [done |-> FALSE, status |-> 0, code |-> ""]

\* SourceMap.__init__ (source_map.py 111-114)
SourceMap == [files |-> <<>>, path_to_id |-> [path \in {} |-> 0], next_id |-> 1]

\* No Position: nothing was located yet.
None == [t |-> "None"]

\* reset_source_map() at the start of run_file: an empty map, no lexer yet.
reset_source_map ==
    /\ source_map = SourceMap
    /\ tokens = <<>>
    /\ position = None

Exit(status, code) == [done |-> TRUE, status |-> status, code |-> code]

\* The loop body of Interpreter.interpret on the main program (line 425).
InterpretStatement ==
    /\ ~exit.done
    /\ pc <= Len(program)
    /\ LET r == execute(program[pc], st)
       IN  /\ r.k = "ok"
           /\ st' = r.s
    /\ pc' = pc + 1
    /\ UNCHANGED <<files, program, exit, source_map, tokens, position, returned>>

\* A top-level statement raises: interpret's except clauses turn it into a
\* LapisError, run_file emits its diagnostic and exits with status 1.
InterpretRaise ==
    /\ ~exit.done
    /\ pc <= Len(program)
    /\ LET r == execute(program[pc], st)
       IN  /\ r.k # "ok"
           /\ st' = r.s
           /\ exit' = Exit(1, interpret_except(r).v.code)
    /\ UNCHANGED <<files, program, pc, source_map, tokens, position, returned>>

\* The loop is over: run_file returns and the process exits with status 0.
InterpretEnd ==
    /\ ~exit.done
    /\ pc > Len(program)
    /\ exit' = Exit(0, "")
    /\ UNCHANGED <<files, program, pc, st, source_map, tokens, position, returned>>

Next == InterpretStatement \/ InterpretRaise \/ InterpretEnd

-----------------------------------------------------------------------------
(* Programs.  The statements the generated programs are made of. *)

Lit(v) == LiteralExpression(v)

Id(name) == IdentifierExpression(name)

\* Console.print(e);
SayExpr(e) ==
    ExpressionStatement(CallExpression(GetExpression(Id("Console"), "print"), <<e>>))

\* Console.print("x");
Say(x) == SayExpr(Lit(Str(x)))

\* Console.error("boom");
ErrorStmt ==
    ExpressionStatement(CallExpression(GetExpression(Id("Console"), "error"),
                                       <<Lit(Str("boom"))>>))

Said(x) == <<Str(x)>>

\* How many times the event ev was printed.
Count(ev, out) == Cardinality({i \in 1..Len(out) : out[i] = ev})

\* Sequences over S of length at most n.
SeqUpTo(S, n) == UNION {[1..k -> S] : k \in 0..n}

-----------------------------------------------------------------------------
(* Programs around one try statement.  Console.print("T") marks each entry *)
(* into the try statement, Console.print("F") each run of its finally body.*)

TryAtoms == {Say("a"), ErrorStmt, ReturnStatement(Lit(Num(7))), BreakStatement,
             ContinueStatement}

CatchOptions ==
    {<<>>} \cup {<<CatchClause(v, b)>> : v \in {"", "e"}, b \in SeqUpTo(TryAtoms, 1)}

FinallyOptions ==
    {<<>>, <<Say("F")>>, <<Say("F"), ErrorStmt>>, <<Say("F"), BreakStatement>>}

TryStatements ==
    {TryStatement(b, c, f) : b \in SeqUpTo(TryAtoms, MaxBodyLen), c \in CatchOptions,
                             f \in FinallyOptions}

\* try ... end  Console.print("end");
TopProgram(t) == <<Say("T"), t, Say("end")>>

\* for i in [1, 2]  try ... end  Console.print("after");  end
LoopProgram(t) ==
    <<ForStatement("i", ArrayExpression(<<Lit(Num(1)), Lit(Num(2))>>),
                   BlockStatement(<<Say("T"), t, Say("after")>>)),
      Say("end")>>

\* func f()  try ... end  Console.print("after"); return 0;  end
\* Console.print(f());
FuncProgram(t) ==
    <<FunctionStatement("f", <<>>, <<Say("T"), t, Say("after"), ReturnStatement(Lit(Num(0)))>>,
                        PRIVATE, ""),
      SayExpr(CallExpression(Id("f"), <<>>)),
      Say("end")>>

TryPrograms ==
    {TopProgram(t) : t \in TryStatements} \cup {LoopProgram(t) : t \in TryStatements}
        \cup {FuncProgram(t) : t \in TryStatements}

NoFiles == [n \in {} |-> <<>>]

InitTry ==
    /\ program \in TryPrograms
    /\ files = NoFiles
    /\ pc = 1
    /\ st = Interpreter(EmptyState)
    /\ exit = Running
    /\ reset_source_map
    /\ returned = None

SpecTry == InitTry /\ [][Next]_vars

\* The try statement of a program of TryPrograms.
TryOf(prog) ==
    CASE prog[1].k = "For" -> prog[1].body.statements[2]
      [] prog[1].k = "Function" -> prog[1].body[2]
      [] OTHER -> prog[2]

\* C1: in every terminating execution of a try statement that has a finally
\* body, the finally body is executed exactly once, on every exit path: when
\* the run is over, Console.print("F") has run as often as the try statement
\* was entered.
C1_FinallyRunsExactlyOnce ==
    (exit.done /\ TryOf(program).finally_body # <<>>)
        => Count(Said("F"), st.out) = Count(Said("T"), st.out)

\* The first statement of a body that is not a print: the way the body ends.
RECURSIVE Ending(_)
Ending(body) ==
    IF body = <<>> THEN NoStmt
    ELSE IF Head(body) = Say("a") THEN Ending(Tail(body))
    ELSE Head(body)

\* The return, break or continue that leaves the try body or the catch body
\* of the try statement t, NoStmt when there is none.
Originates(t) ==
    IF Ending(t.try_body).k \in {"Return", "Break", "Continue"} THEN Ending(t.try_body)
    ELSE IF Ending(t.try_body) = ErrorStmt /\ t.catch_clauses # <<>>
            /\ Ending(t.catch_clauses[1].body).k \in {"Return", "Break", "Continue"}
    THEN Ending(t.catch_clauses[1].body)
    ELSE NoStmt

\* Standard output without the prints of the try and catch bodies.
Trace(out) == SelectSeq(out, LAMBDA ev : ev # Said("a"))

\* C2: a return, break or continue that originates in the try body or a catch
\* body of a try statement with a finally body runs the finally body first and
\* then reaches the nearest enclosing function call or loop: the return hands
\* 7 to the caller of f, the break ends the loop in its first pass, the
\* continue starts the second pass, and "F" is printed before each of them.
C2_TransferRunsFinallyFirst ==
    \A t \in TryStatements :
        (exit.done /\ t.finally_body = <<Say("F")>>) =>
            /\ (program = FuncProgram(t) /\ Originates(t).k = "Return")
                   => Trace(st.out) = <<Said("T"), Said("F"), <<Num(7)>>, Said("end")>>
            /\ (program = LoopProgram(t) /\ Originates(t).k = "Break")
                   => Trace(st.out) = <<Said("T"), Said("F"), Said("end")>>
            /\ (program = LoopProgram(t) /\ Originates(t).k = "Continue")
                   => Trace(st.out) = <<Said("T"), Said("F"), Said("T"), Said("F"),
                                        Said("end")>>

-----------------------------------------------------------------------------
(* Programs around one call.  The callee has np fixed parameters a, b, ... *)
(* and, when variadic, the variadic parameter rest; its body is            *)
(*     Console.print("body"); Console.print(a, b, rest);                   *)
(* and the call passes the arguments 1, ..., n.                            *)

MaxParams == 2

Params(np) == SubSeq(<<"a", "b", "c", "d">>, 1, np)

Args(n) == [i \in 1..n |-> Lit(Num(i))]

CallBody(np, variadic) ==
    <<Say("body"),
      ExpressionStatement(CallExpression(GetExpression(Id("Console"), "print"),
          [i \in 1..np |-> Id(Params(np)[i])] \o (IF variadic THEN <<Id("rest")>> ELSE <<>>)))>>

Declaration(name, np, variadic, access) ==
    FunctionStatement(name, Params(np), CallBody(np, variadic), access,
                      IF variadic THEN "rest" ELSE "")

\* func f(a, b, rest**) ... end  f(1, ..., n);
FunctionCallProgram(np, variadic, n) ==
    <<Declaration("f", np, variadic, PRIVATE),
      ExpressionStatement(CallExpression(Id("f"), Args(n))),
      Say("end")>>

\* class P func m(a, b, rest**) ... end end  var p = P();  p.m(1, ..., n);
MethodCallProgram(np, variadic, n) ==
    <<ClassStatement("P", <<Declaration("m", np, variadic, PUBLIC)>>, NoStmt, PRIVATE),
      VarStatement("p", CallExpression(Id("P"), <<>>), PRIVATE),
      ExpressionStatement(CallExpression(GetExpression(Id("p"), "m"), Args(n))),
      Say("end")>>

\* class P func init(a, b, rest**) ... end end  var p = P(1, ..., n);
ConstructorCallProgram(np, variadic, n) ==
    <<ClassStatement("P", <<>>, Declaration("init", np, variadic, PUBLIC), PRIVATE),
      VarStatement("p", CallExpression(Id("P"), Args(n)), PRIVATE),
      Say("end")>>

\* Console.print(Math.abs(1, ..., n));
HostCallProgram(n) ==
    <<SayExpr(CallExpression(GetExpression(Id("Math"), "abs"), Args(n))), Say("end")>>

UserCallProgram(kind, np, variadic, n) ==
    CASE kind = "function" -> FunctionCallProgram(np, variadic, n)
      [] kind = "method" -> MethodCallProgram(np, variadic, n)
      [] kind = "constructor" -> ConstructorCallProgram(np, variadic, n)

UserCallKinds == {"function", "method", "constructor"}

CallPrograms ==
    {UserCallProgram(kind, np, variadic, n) :
         kind \in UserCallKinds, np \in 0..MaxParams, variadic \in BOOLEAN, n \in 0..MaxArgs}
        \cup {HostCallProgram(n) : n \in 0..MaxArgs}

InitCall ==
    /\ program \in CallPrograms
    /\ files = NoFiles
    /\ pc = 1
    /\ st = Interpreter(EmptyState)
    /\ exit = Running
    /\ reset_source_map
    /\ returned = None

SpecCall == InitCall /\ [][Next]_vars

\* The values of the arguments 1, ..., n.
ArgValues(n) == [i \in 1..n |-> Num(i)]

\* C3: invoking a bound method, or the init constructor run by a class
\* invocation, executes the function body exactly once: the print of the body
\* happens once per call, and a run that ends normally has made it once.
C3_BoundMethodBodyRunsOnce ==
    \A kind \in {"method", "constructor"}, np \in 0..MaxParams, variadic \in BOOLEAN,
       n \in 0..MaxArgs :
        program = UserCallProgram(kind, np, variadic, n) =>
            /\ Count(Said("body"), st.out) <= 1
            /\ (exit.done /\ exit.status = 0) => Count(Said("body"), st.out) = 1

\* C8: a fixed-arity callable (user function, bound method, class
\* constructor, host builtin) called with exactly its parameter count binds
\* every parameter and the run ends normally; called with any other count the
\* run fails with WRONG_ARITY (LAP3004) and no statement of the body has run.
C8_FixedArity ==
    /\ \A kind \in UserCallKinds, np \in 0..MaxParams, n \in 0..MaxArgs :
        (exit.done /\ program = UserCallProgram(kind, np, FALSE, n)) =>
            IF n = np
            THEN exit.status = 0 /\ Count(ArgValues(n), st.out) >= 1
            ELSE exit.code = "LAP3004" /\ Count(Said("body"), st.out) = 0
    /\ \A n \in 0..MaxArgs :
        (exit.done /\ program = HostCallProgram(n)) =>
            IF n = 1
            THEN exit.status = 0 /\ Count(<<Num(1)>>, st.out) = 1
            ELSE exit.code = "LAP3004"

\* C9: a variadic function or method called with n >= fixed_count arguments
\* binds the first fixed_count arguments to the fixed parameters and the
\* remaining ones, in order, as an array to the variadic parameter; a call
\* with n < fixed_count is not accepted: it fails and the body does not run.
C9_VariadicBinding ==
    \A kind \in {"function", "method"}, np \in 0..MaxParams, n \in 0..MaxArgs :
        (exit.done /\ program = UserCallProgram(kind, np, TRUE, n)) =>
            IF n >= np
            THEN /\ exit.status = 0
                 /\ Count(SubSeq(ArgValues(n), 1, np)
                              \o <<Arr(SubSeq(ArgValues(n), np + 1, n))>>, st.out) >= 1
            ELSE exit.status = 1 /\ Count(Said("body"), st.out) = 0

-----------------------------------------------------------------------------
(* Programs that declare x inside a body and read it after the body.       *)
(*     [var x = 1;]  <a statement whose body declares x>                   *)
(*     Console.print(x);  Console.print("end");                            *)

Forms == {"if", "elif", "else", "while", "for", "function", "try", "catch",
          "catch_without_variable", "finally", "case", "default"}

True == Lit(Bool(TRUE))

False == Lit(Bool(FALSE))

\* The statements that run `decl` inside a body of the given form.
InBody(form, decl) ==
    CASE form = "if" -> <<IfStatement(True, BlockStatement(<<decl>>), NoStmt, <<>>)>>
      [] form = "elif" ->
            <<IfStatement(False, BlockStatement(<<>>), NoStmt,
                          <<ElifBranch(True, BlockStatement(<<decl>>))>>)>>
      [] form = "else" ->
            <<IfStatement(False, BlockStatement(<<>>), BlockStatement(<<decl>>), <<>>)>>
      [] form = "while" ->
            <<VarStatement("go", True, PRIVATE),
              WhileStatement(Id("go"),
                  BlockStatement(<<decl,
                      ExpressionStatement(AssignmentExpression("go", False))>>))>>
      [] form = "for" ->
            <<ForStatement("i", ArrayExpression(<<Lit(Num(1))>>), BlockStatement(<<decl>>))>>
      [] form = "function" ->
            <<FunctionStatement("f", <<>>, <<decl>>, PRIVATE, ""),
              ExpressionStatement(CallExpression(Id("f"), <<>>))>>
      [] form = "try" -> <<TryStatement(<<decl>>, <<>>, <<Say("F")>>)>>
      [] form = "catch" ->
            <<TryStatement(<<ErrorStmt>>, <<CatchClause("e", <<decl>>)>>, <<>>)>>
      [] form = "catch_without_variable" ->
            <<TryStatement(<<ErrorStmt>>, <<CatchClause("", <<decl>>)>>, <<>>)>>
      [] form = "finally" -> <<TryStatement(<<Say("a")>>, <<>>, <<decl>>)>>
      [] form = "case" ->
            <<SwitchStatement(Lit(Num(1)),
                              <<CaseClause(<<Lit(Num(1))>>, <<decl>>, FALSE)>>)>>
      [] form = "default" ->
            <<SwitchStatement(Lit(Num(1)), <<CaseClause(<<>>, <<decl>>, TRUE)>>)>>

\* var x = 5;  or  var x;
Declarations == {VarStatement("x", Lit(Num(5)), PRIVATE), VarStatement("x", NoExpr, PRIVATE)}

ScopeProgram(form, decl, outer) ==
    (IF outer THEN <<VarStatement("x", Lit(Num(1)), PRIVATE)>> ELSE <<>>)
        \o InBody(form, decl) \o <<SayExpr(Id("x")), Say("end")>>

ScopePrograms ==
    {ScopeProgram(form, decl, outer) : form \in Forms, decl \in Declarations,
                                       outer \in BOOLEAN}

InitScope ==
    /\ program \in ScopePrograms
    /\ files = NoFiles
    /\ pc = 1
    /\ st = Interpreter(EmptyState)
    /\ exit = Running
    /\ reset_source_map
    /\ returned = None

SpecScope == InitScope /\ [][Next]_vars

\* C10: a name declared with var inside a body is invisible after the body,
\* for every body form: when the run is over, reading x after the body has
\* failed with the undefined-variable error (LAP4001) when no outer scope
\* defines x, and has printed the outer value 1 when one does.
C10_BodyDeclarationsInvisible ==
    \A form \in Forms, decl \in Declarations, outer \in BOOLEAN :
        (exit.done /\ program = ScopeProgram(form, decl, outer)) =>
            IF outer
            THEN exit.status = 0 /\ Count(<<Num(1)>>, st.out) = 1
            ELSE exit.code = "LAP4001" /\ Count(Said("end"), st.out) = 0

-----------------------------------------------------------------------------
(* Programs made of package statements, over the files                     *)
(*   d.lapis   Console.print("D"); public var dx = 1; public var dy = 2;   *)
(*             private var dpriv = 3;                                      *)
(*   b.lapis   Console.print("B"); package "d"; public var bx = 10;        *)
(*   c.lapis   Console.print("C"); package "d"; public var cx = 20;        *)
(*   a.lapis   Console.print("A"); package "a2";                           *)
(*   a2.lapis  Console.print("A2"); package "a";                           *)

ImportFiles ==
    ("d" :> <<Say("D"), VarStatement("dx", Lit(Num(1)), PUBLIC),
              VarStatement("dy", Lit(Num(2)), PUBLIC),
              VarStatement("dpriv", Lit(Num(3)), PRIVATE)>>)
    @@ ("b" :> <<Say("B"), PackageStatement(Path("", "d"), <<>>),
                 VarStatement("bx", Lit(Num(10)), PUBLIC)>>)
    @@ ("c" :> <<Say("C"), PackageStatement(Path("", "d"), <<>>),
                 VarStatement("cx", Lit(Num(20)), PUBLIC)>>)
    @@ ("a" :> <<Say("A"), PackageStatement(Path("", "a2"), <<>>)>>)
    @@ ("a2" :> <<Say("A2"), PackageStatement(Path("", "a"), <<>>)>>)

\* The longest main program, in package statements.
MaxPackages == 2

\* The paths of the package statements: each file by its bare name, and d
\* in the three spellings of its path.
ImportPaths ==
    {Path("", name) : name \in {"a", "b", "c", "d", "missing"}}
        \cup {Path(prefix, "d") : prefix \in {"./", "/cwd/"}}

PackageStatements ==
    {PackageStatement(path, imports) :
         path \in ImportPaths,
         imports \in {<<>>, <<"dx">>, <<"dy">>, <<"dpriv">>, <<"nosuch">>}}

ImportPrograms ==
    {packages \o <<Say("end")>> :
         packages \in SeqUpTo(PackageStatements, MaxPackages) \ {<<>>}}

InitImport ==
    /\ program \in ImportPrograms
    /\ files = ImportFiles
    /\ pc = 1
    /\ st = Interpreter(EmptyState)
    /\ exit = Running
    /\ reset_source_map
    /\ returned = None

SpecImport == InitImport /\ [][Next]_vars

\* C4: within one run the top-level statements of a file are evaluated
\* exactly once however many package statements name it, in whichever module
\* they are executed: no resolved path is handed to interpret twice.
C4_FileEvaluatedOnce ==
    \A i, j \in DOMAIN st.evaluated :
        st.evaluated[i].file_path = st.evaluated[j].file_path => i = j

\* The evaluations of the file at a resolved path, as indexes of the log.
Evaluations(file_path) ==
    {i \in DOMAIN st.evaluated : st.evaluated[i].file_path = file_path}

\* The files of the import cycle a -> a2 -> a.
Cycle == {Path("/cwd/", "a"), Path("/cwd/", "a2")}

\* C5: a circular import is detected through the set of paths in progress:
\* in a run whose first package statement enters the cycle, the re-entered
\* file is not evaluated again, so each file of the cycle is evaluated at
\* most once.
C5_CircularImportDetected ==
    resolve_import_path(program[1].path) \in Cycle =>
        \A p \in Cycle : Cardinality(Evaluations(p)) <= 1

\* The names bound in the global environment of the main program.
Bound == DOMAIN st.envs[st.globals].values

\* The public global bindings of the module at a resolved path, as its
\* evaluation left them; none when the file was never evaluated.
PublicNames(file_path) ==
    IF Evaluations(file_path) = {} THEN {}
    ELSE LET last == CHOOSE i \in Evaluations(file_path) :
                         \A j \in Evaluations(file_path) : j <= i
         IN  get_all_public(st, st.evaluated[last].globals)

\* The names a package statement asks for.
Requested(stmt) ==
    IF stmt.imports = <<>> THEN PublicNames(resolve_import_path(stmt.path))
    ELSE {stmt.imports[i] : i \in DOMAIN stmt.imports}

IsPackage(i) == i \in DOMAIN program /\ program[i].k = "Package"

\* C6: a package statement for a path already imported in this run binds the
\* symbols the first import would have produced: once it has completed, no
\* name it requested is undefined in the importing environment.
C6_ReimportBindsSymbols ==
    \A i \in DOMAIN program, j \in DOMAIN program :
        (/\ j < i /\ i < pc /\ IsPackage(i) /\ IsPackage(j)
         /\ resolve_import_path(program[i].path) = resolve_import_path(program[j].path))
            => Requested(program[i]) \subseteq Bound

\* The names the main program defines before any import.
BuiltIns == {"Console", "Math", "File", "__lapis_native_py_call"}

\* C7: an import never makes a private binding of the target visible:
\* a completed package statement without use has copied exactly the public
\* bindings of the target, each as a private binding; a completed statement
\* with use lists only public names of the target, and a statement with use
\* that lists a missing or private name fails with IMPORT_ERROR (LAP4003).
C7_ImportOnlyPublic ==
    /\ \A i \in DOMAIN program :
        (i < pc /\ IsPackage(i)) =>
            /\ Requested(program[i]) \subseteq
                   PublicNames(resolve_import_path(program[i].path))
            /\ \A n \in Requested(program[i]) :
                   n \in Bound /\ st.envs[st.globals].values[n].access_modifier = PRIVATE
    /\ Bound \subseteq BuiltIns \cup UNION {Requested(program[i]) :
                                              i \in {j \in DOMAIN program : j < pc /\ IsPackage(j)}}
    /\ (exit.done /\ IsPackage(pc) /\ program[pc].imports # <<>>
        /\ ~(Requested(program[pc]) \subseteq
                 PublicNames(resolve_import_path(program[pc].path))))
            => exit.code = "LAP4003"

-----------------------------------------------------------------------------
(* Programs around one try statement with catch clauses and no finally.    *)
(*     try <body> catch [(e)] Console.print("c"); ... [catch ...("c2")] end*)
(*     Console.print("after");  Console.print(x);                          *)
(* at top level, in the body of a loop, or in the body of a function.      *)

\* Console.print(nosuch): raises RuntimeError LAP4001, a LapisError.
ReadUndefined == SayExpr(Id("nosuch"))

CatchTryBodies ==
    {<<ErrorStmt>>, <<Say("a"), ErrorStmt>>, <<ReadUndefined>>,
     <<ReturnStatement(Lit(Num(7)))>>, <<BreakStatement>>, <<ContinueStatement>>}

CatchBodies(variable) ==
    {<<Say("c")>>, <<Say("c"), VarStatement("x", Lit(Num(5)), PRIVATE)>>}
        \cup (IF variable = "e" THEN {<<Say("c"), SayExpr(Id("e"))>>} ELSE {})

SecondClauses == {<<>>, <<CatchClause("", <<Say("c2")>>)>>}

CatchTry(body, variable, catch_body, second) ==
    TryStatement(body, <<CatchClause(variable, catch_body)>> \o second, <<>>)

AfterTry == <<Say("after"), SayExpr(Id("x"))>>

CatchProgram(place, t) ==
    CASE place = "top" -> <<t>> \o AfterTry \o <<Say("end")>>
      [] place = "loop" ->
            <<ForStatement("i", ArrayExpression(<<Lit(Num(1))>>),
                           BlockStatement(<<t>> \o AfterTry)),
              Say("end")>>
      [] place = "function" ->
            <<FunctionStatement("f", <<>>, <<t>> \o AfterTry \o <<ReturnStatement(Lit(Num(0)))>>,
                                PRIVATE, ""),
              SayExpr(CallExpression(Id("f"), <<>>)),
              Say("end")>>

Places == {"top", "loop", "function"}

CatchPrograms ==
    UNION {{CatchProgram(place, CatchTry(body, variable, catch_body, second)) :
                place \in Places, body \in CatchTryBodies,
                catch_body \in CatchBodies(variable), second \in SecondClauses} :
           variable \in {"", "e"}}

InitCatch ==
    /\ program \in CatchPrograms
    /\ files = NoFiles
    /\ pc = 1
    /\ st = Interpreter(EmptyState)
    /\ exit = Running
    /\ reset_source_map
    /\ returned = None

SpecCatch == InitCatch /\ [][Next]_vars

\* The exception the try body raises.
RaisedBy(body) ==
    IF Ending(body) = ErrorStmt THEN Exc("LapisRuntimeException", "")
    ELSE from_simple("RuntimeError", "LAP4001")

\* C11: when the try body raises a runtime error and there is a catch
\* clause, the body of the first catch clause runs (once, and no other
\* clause) in a fresh child environment with the catch variable bound to a
\* wrapper of the error, the error is handled and execution continues after
\* the try statement: "after" is printed, and x, declared in the catch body,
\* is undefined there (LAP4001).  A return, break or continue raised in the
\* try body runs no catch clause.
C11_CatchHandlesErrors ==
    \A place \in Places, body \in CatchTryBodies, variable \in {"", "e"},
       second \in SecondClauses :
        \A catch_body \in CatchBodies(variable) :
            (exit.done
             /\ program = CatchProgram(place, CatchTry(body, variable, catch_body, second)))
                => IF Ending(body).k \in {"Return", "Break", "Continue"}
                   THEN Count(Said("c"), st.out) = 0 /\ Count(Said("c2"), st.out) = 0
                   ELSE /\ Count(Said("c"), st.out) = 1
                        /\ Count(Said("c2"), st.out) = 0
                        /\ Count(Said("after"), st.out) = 1
                        /\ exit.code = "LAP4001"
                        /\ catch_body[Len(catch_body)] = SayExpr(Id("e"))
                               => Count(<<LapisRuntimeException(RaisedBy(body))>>, st.out) = 1

-----------------------------------------------------------------------------
(* Programs around one return, break or continue, executed directly or in  *)
(* the body of a function or method that is called, at top level or in    *)
(* the body of an if, a for, a while or a switch case:                     *)
(*     Console.print("T");  <transfer, f() or p.m()>  Console.print("after") *)

Transfers == {ReturnStatement(Lit(Num(7))), BreakStatement, ContinueStatement}

Callees == {"none", "function", "method"}

Contexts == {"top", "if", "for", "while", "switch"}

\* The declarations the call needs.
EscapePreamble(transfer, callee) ==
    CASE callee = "none" -> <<>>
      [] callee = "function" -> <<FunctionStatement("f", <<>>, <<transfer>>, PRIVATE, "")>>
      [] callee = "method" ->
            <<ClassStatement("P", <<FunctionStatement("m", <<>>, <<transfer>>, PUBLIC, "")>>,
                             NoStmt, PRIVATE),
              VarStatement("p", CallExpression(Id("P"), <<>>), PRIVATE)>>

EscapeInner(transfer, callee) ==
    <<Say("T"),
      CASE callee = "none" -> transfer
        [] callee = "function" -> ExpressionStatement(CallExpression(Id("f"), <<>>))
        [] callee = "method" ->
              ExpressionStatement(CallExpression(GetExpression(Id("p"), "m"), <<>>)),
      Say("after")>>

EscapeContext(context, inner) ==
    CASE context = "top" -> inner
      [] context = "if" -> <<IfStatement(True, BlockStatement(inner), NoStmt, <<>>)>>
      [] context = "for" ->
            <<ForStatement("i", ArrayExpression(<<Lit(Num(1)), Lit(Num(2))>>),
                           BlockStatement(inner))>>
      [] context = "while" ->
            <<VarStatement("go", True, PRIVATE),
              WhileStatement(Id("go"),
                  BlockStatement(<<ExpressionStatement(AssignmentExpression("go", False))>>
                                     \o inner))>>
      [] context = "switch" ->
            <<SwitchStatement(Lit(Num(1)), <<CaseClause(<<Lit(Num(1))>>, inner, FALSE)>>)>>

EscapeProgram(transfer, callee, context) ==
    EscapePreamble(transfer, callee)
        \o EscapeContext(context, EscapeInner(transfer, callee)) \o <<Say("end")>>

EscapePrograms ==
    {EscapeProgram(transfer, callee, context) :
         transfer \in Transfers, callee \in Callees, context \in Contexts}

InitEscape ==
    /\ program \in EscapePrograms
    /\ files = NoFiles
    /\ pc = 1
    /\ st = Interpreter(EmptyState)
    /\ exit = Running
    /\ reset_source_map
    /\ returned = None

SpecEscape == InitEscape /\ [][Next]_vars

\* The transfer has no target in its function activation: a break or continue
\* in the body of f or m, a return outside any call, a break outside loop and
\* switch, a continue outside a loop.
Unenclosed(transfer, callee, context) ==
    \/ callee # "none" /\ transfer.k \in {"Break", "Continue"}
    \/ callee = "none" /\ transfer.k = "Return"
    \/ callee = "none" /\ transfer.k = "Break" /\ context \in {"top", "if"}
    \/ callee = "none" /\ transfer.k = "Continue" /\ context \in {"top", "if", "switch"}

\* C12: a break or continue with no enclosing loop (or switch, for break) in
\* the current function activation, and a return outside any function call,
\* produce a runtime error: the run ends with status 1 at the transfer (T was
\* printed once, "after" and "end" never), so a break or continue in the body
\* of a called function neither ends nor advances the caller's loop.
C12_UnenclosedTransferIsError ==
    \A transfer \in Transfers, callee \in Callees, context \in Contexts :
        (exit.done /\ program = EscapeProgram(transfer, callee, context)
         /\ Unenclosed(transfer, callee, context))
            => /\ exit.status = 1
               /\ Count(Said("T"), st.out) = 1
               /\ Count(Said("after"), st.out) = 0
               /\ Count(Said("end"), st.out) = 0

-----------------------------------------------------------------------------
(* Switch statements: the discriminant and every case value print as they
   are evaluated, every body prints its clause number.

       func d(x) Console.print("d"); return x; end
       func p(x) Console.print(x); return x; end
       switch (d(<discriminant>))
           case p(<value>), p(<value>): Console.print("body 1");
           default: Console.print("body 2");
           ...
       end
       Console.print("after");                                              *)

MaxCases == 2

Probe(name, body) ==
    FunctionStatement(name, <<"x">>, body \o <<ReturnStatement(Id("x"))>>, PRIVATE, "")

Probed(name, e) == CallExpression(Id(name), <<e>>)

CaseValues == {Bool(TRUE), Num(1), Str("1")}

Discriminants == {Lit(v) : v \in CaseValues \cup {Null}} \cup {Id("nosuch")}

\* The values of a case clause: one or two; <<>> stands for default.
ValueLists ==
    {<<v>> : v \in CaseValues} \cup {<<v, w>> : v \in CaseValues, w \in CaseValues}
        \cup {<<>>}

BodyLabel(i) == "body " \o ToString(i)

SwitchOf(discriminant, lists) ==
    SwitchStatement(Probed("d", discriminant),
        [i \in 1..Len(lists) |->
            CaseClause([j \in 1..Len(lists[i]) |-> Probed("p", Lit(lists[i][j]))],
                       <<Say(BodyLabel(i))>>, lists[i] = <<>>)])

SwitchProgram(discriminant, lists) ==
    <<Probe("d", <<Say("d")>>), Probe("p", <<SayExpr(Id("x"))>>),
      SwitchOf(discriminant, lists), Say("after")>>

SwitchLists == SeqUpTo(ValueLists, MaxCases) \ {<<>>}

SwitchPrograms ==
    {SwitchProgram(discriminant, lists) :
         discriminant \in Discriminants, lists \in SwitchLists}

InitSwitch ==
    /\ program \in SwitchPrograms
    /\ files = NoFiles
    /\ pc = 1
    /\ st = Interpreter(EmptyState)
    /\ exit = Running
    /\ reset_source_map
    /\ returned = None

SpecSwitch == InitSwitch /\ [][Next]_vars

\* The case values of a switch in source order, each with its clause number.
RECURSIVE Tests(_, _)
Tests(lists, i) ==
    IF i > Len(lists) THEN <<>>
    ELSE [j \in 1..Len(lists[i]) |-> [clause |-> i, value |-> lists[i][j]]]
         \o Tests(lists, i + 1)

\* Whether a == b evaluates to true.
Equal(a, b) ==
    evaluate(BinaryExpression(Lit(a), "==", Lit(b)), Interpreter(EmptyState)).v = Bool(TRUE)

\* What a switch over the value v prints: every case value up to and
\* including the first one equal to v, then the body of that clause, or the
\* body of the default clause when no value is equal.
SwitchOutput(v, lists) ==
    LET tests == Tests(lists, 1)
        matches == {n \in 1..Len(tests) : Equal(v, tests[n].value)}
        first == CHOOSE n \in matches : \A m \in matches : n <= m
        defaults == {i \in 1..Len(lists) : lists[i] = <<>>}
    IN  IF matches # {}
        THEN [n \in 1..first |-> <<tests[n].value>>]
             \o <<Said(BodyLabel(tests[first].clause))>>
        ELSE [n \in 1..Len(tests) |-> <<tests[n].value>>]
             \o (IF defaults = {} THEN <<>>
                 ELSE <<Said(BodyLabel(CHOOSE i \in defaults : TRUE))>>)

\* The discriminant and the case values of a program of SwitchPrograms.
DiscriminantOf(prog) == prog[3].expression.arguments[1]

ListsOf(prog) ==
    [i \in 1..Len(prog[3].cases) |->
        [j \in 1..Len(prog[3].cases[i].values) |->
            prog[3].cases[i].values[j].arguments[1].value]]

\* C13: a switch evaluates its discriminant exactly once, tests the case
\* values in source order with the equality of ==, runs the body of the first
\* matching case and of no other, and runs the default body only when no value
\* matches, wherever the default clause stands.
C13_SwitchFirstMatch ==
    LET lists == ListsOf(program)
    IN  (exit.done /\ DiscriminantOf(program).e = "Literal"
         /\ Cardinality({i \in 1..Len(lists) : lists[i] = <<>>}) <= 1)
            => /\ exit.status = 0
               /\ st.out = <<Said("d")>>
                            \o SwitchOutput(DiscriminantOf(program).value, lists)
                            \o <<Said("after")>>

\* C13 witness: switch (true) with the default clause first and a matching
\* second clause has run the second body.
C13_Witness ==
    /\ exit.done
    /\ DiscriminantOf(program) = Lit(Bool(TRUE))
    /\ ListsOf(program) = <<<<>>, <<Str("1"), Num(1)>>>>
    /\ Count(Said("body 2"), st.out) = 1

-----------------------------------------------------------------------------
(* Binary operators on every kind of runtime value.

       class K end
       var k = K();
       var j = K();
       Console.print(<left> <operator> <right>);
       Console.print("after");                                              *)

Instances ==
    <<ClassStatement("K", <<>>, NoStmt, PRIVATE),
      VarStatement("k", CallExpression(Id("K"), <<>>), PRIVATE),
      VarStatement("j", CallExpression(Id("K"), <<>>), PRIVATE)>>

\* null, true, 1, 0.5, "a", "b", [1], [true], {1: "a"}, {true: "a"}, the
\* instances k and j, and 2 ** 1, an operand that carries no span.
Operands ==
    {Lit(Null), Lit(Bool(TRUE)), Lit(Num(1)), Lit(Float(1, 2)), Lit(Str("a")), Lit(Str("b")),
     ArrayExpression(<<Lit(Num(1))>>), ArrayExpression(<<Lit(Bool(TRUE))>>),
     DictionaryExpression(<<<<Lit(Num(1)), Lit(Str("a"))>>>>),
     DictionaryExpression(<<<<Lit(Bool(TRUE)), Lit(Str("a"))>>>>),
     Id("k"), Id("j"), BinaryExpression(Lit(Num(2)), "**", Lit(Num(1)))}

ArithmeticOperators == {"-", "*", "/", "**", "%"}

ComparisonOperators == {"<", "<=", ">", ">="}

Operators == {"+"} \cup ArithmeticOperators \cup ComparisonOperators

BinaryProgram(left, operator, right) ==
    Instances \o <<SayExpr(BinaryExpression(left, operator, right)), Say("after")>>

\* Console.print(a == b); Console.print(b == a);
\* Console.print(a != b); Console.print(b != a);
EqualityProgram(a, b) ==
    Instances \o <<SayExpr(BinaryExpression(a, "==", b)), SayExpr(BinaryExpression(b, "==", a)),
                   SayExpr(BinaryExpression(a, "!=", b)), SayExpr(BinaryExpression(b, "!=", a))>>

BinaryPrograms ==
    {BinaryProgram(left, operator, right) :
         left \in Operands, operator \in Operators, right \in Operands}
        \cup {EqualityProgram(a, b) : a \in Operands, b \in Operands}

InitBinary ==
    /\ program \in BinaryPrograms
    /\ files = NoFiles
    /\ pc = 1
    /\ st = Interpreter(EmptyState)
    /\ exit = Running
    /\ reset_source_map
    /\ returned = None

SpecBinary == InitBinary /\ [][Next]_vars

\* The binary expression of a program of BinaryPrograms, and the values of
\* its operands.
ExpressionOf(prog) == prog[4].expression.arguments[1]

ValueOf(operand) == evaluate(operand, st).v

\* C14: for all runtime values a and b, a == b gives the same result as
\* b == a, and a != b gives the negation of a == b.
C14_EqualitySymmetric ==
    (exit.done /\ ExpressionOf(program).operator = "==")
        => /\ exit.status = 0
           /\ Len(st.out) = 4
           /\ \A i \in 1..4 : st.out[i] \in {<<Bool(TRUE)>>, <<Bool(FALSE)>>}
           /\ st.out[1] = st.out[2]
           /\ st.out[3] # st.out[1]
           /\ st.out[4] # st.out[2]

\* C14 witness: true == 1, 1 == true, true != 1 and 1 != true were printed.
C14_Witness ==
    /\ exit.done
    /\ program = EqualityProgram(Lit(Bool(TRUE)), Lit(Num(1)))
    /\ st.out = <<<<Bool(TRUE)>>, <<Bool(TRUE)>>, <<Bool(FALSE)>>, <<Bool(FALSE)>>>>

\* C15: for each of -, *, /, **, %, <, <=, >, >=, if either operand is not
\* numeric the evaluation fails with the type error TYPE_MISMATCH_BINARY
\* (LAP3001) and yields no value; in particular comparing two strings or two
\* arrays never prints a boolean.
C15_NonNumericOperandIsTypeError ==
    LET e == ExpressionOf(program)
    IN  (/\ exit.done
         /\ e.operator \in ArithmeticOperators \cup ComparisonOperators
         /\ ~(ValueOf(e.left).t \in {"num", "float"}
              /\ ValueOf(e.right).t \in {"num", "float"}))
            => /\ exit.status = 1
               /\ exit.code = "LAP3001"
               /\ st.out = <<>>

\* C16: + yields the numeric sum only when both operands are numeric (integer
\* or float), the concatenation of the canonical strings of both operands when
\* at least one operand is a string, and fails with TYPE_MISMATCH_BINARY
\* (LAP3001) in every other case.
C16_PlusOverload ==
    LET e == ExpressionOf(program)
        left == ValueOf(e.left)
        right == ValueOf(e.right)
    IN  (exit.done /\ e.operator = "+")
            => IF left.t \in {"num", "float"} /\ right.t \in {"num", "float"}
               THEN /\ exit.status = 0
                    /\ st.out = <<<<python_arithmetic("+", left, right, st).v>>,
                                  Said("after")>>
               ELSE IF left.t = "str" \/ right.t = "str"
               THEN /\ exit.status = 0
                    /\ st.out = <<<<Str(_to_lapis_string(left) \o _to_lapis_string(right))>>,
                                  Said("after")>>
               ELSE exit.status = 1 /\ exit.code = "LAP3001" /\ st.out = <<>>

-----------------------------------------------------------------------------
(* The source map and the lexer.  A source text is a sequence of characters;
   offsets count from 0 as in Python, sequences from 1. *)

\* content[start:end]: Python's slice, cut off at the end of the text
slice(content, start, end) ==
    [i \in 1..((IF end < Len(content) THEN end ELSE Len(content)) - start) |->
        content[start + i]]

\* SourceFile._compute_line_starts
_compute_line_starts(content) ==
    <<0>> \o SelectSeq([i \in 1..Len(content) |-> i], LAMBDA i : content[i] = "\n")

\* SourceFile.__init__
SourceFile(file_id, path, content) ==
    [file_id |-> file_id, path |-> path, content |-> content,
     line_starts |-> _compute_line_starts(content)]

Position(line, column) == [t |-> "Position", line |-> line, column |-> column]

ValueError == [t |-> "ValueError"]

\* SourceFile.offset_to_position with a column counted from 0.
offset_to_position_from_zero(file, offset) ==
    IF offset < 0 \/ offset > Len(file.content) THEN ValueError
    ELSE LET line_num == Cardinality({i \in 1..Len(file.line_starts) :
                                          file.line_starts[i] <= offset})
         IN  Position(line_num, offset - file.line_starts[line_num])

\* SourceFile.offset_to_position (source_map.py 54-72).  The loop stops at the
\* first line start beyond the offset, whose 0-based index is the line number.
offset_to_position(file, offset) ==
    IF offset < 0 \/ offset > Len(file.content) THEN ValueError
    ELSE LET beyond == {i \in 1..Len(file.line_starts) : file.line_starts[i] > offset}
             line_num == IF beyond = {} THEN Len(file.line_starts)
                         ELSE (CHOOSE i \in beyond : \A j \in beyond : i <= j) - 1
             line_start == IF line_num = 0 THEN file.line_starts[Len(file.line_starts)]
                           ELSE file.line_starts[line_num]
         IN  Position(line_num, offset - line_start + 1)

\* os.path.abspath of a relative name
abspath(path) == "/cwd/" \o path

\* SourceMap.add_file: a path that is already registered keeps its file and
\* its content.
add_file(map, path, content) ==
    LET abs_path == abspath(path)
    IN  IF abs_path \in DOMAIN map.path_to_id
        THEN [map |-> map, file_id |-> map.path_to_id[abs_path]]
        ELSE [map |-> [files |-> Append(map.files,
                                        SourceFile(map.next_id, abs_path, content)),
                       path_to_id |-> (abs_path :> map.next_id) @@ map.path_to_id,
                       next_id |-> map.next_id + 1],
              file_id |-> map.next_id]

Span(file_id, start, end) == [file_id |-> file_id, start |-> start, end |-> end]

\* SourceMap.get_span_text and SourceFile.get_span_text
get_span_text(map, span_) ==
    slice(map.files[span_.file_id].content, span_.start, span_.end)

Token(type, lexeme, literal, line, column, span_) ==
    [type |-> type, lexeme |-> lexeme, literal |-> literal, line |-> line,
     column |-> column, span |-> span_]

\* str.isdigit and str.isalpha on the characters of the model; no keyword of
\* the language is made of the letters a and b alone.
Digits == {"0", "1", "2"}

Letters == {"a", "b"}

isdigit(c) == c \in Digits

isalpha(c) == c \in Letters

\* The end of the run of characters of the set chars from offset i on: the
\* while loops of Lexer.number and Lexer.identifier.
RECURSIVE run_end(_, _, _)
run_end(source, i, chars) ==
    IF i < Len(source) /\ source[i + 1] \in chars THEN run_end(source, i + 1, chars) ELSE i

RECURSIVE digits_value(_)
digits_value(text) ==
    IF text = <<>> THEN 0
    ELSE 10 * digits_value(SubSeq(text, 1, Len(text) - 1))
         + (CHOOSE n \in 0..9 : ToString(n) = text[Len(text)])

\* Lexer.add_token with the span taken before the characters are consumed
add_token_before_advance(l, source, file_id, start, current, type, literal) ==
    [current |-> current,
     line |-> l.line,
     column |-> l.column + (current - start),
     tokens |-> Append(l.tokens,
                    Token(type, slice(source, start, current), literal, l.line,
                          l.column,
                          [file_id |-> file_id, start |-> start, end |-> start]))]

\* Lexer.add_token once the characters start..current are consumed; the
\* token's column, self.column - len(text), is the column before them.
add_token(l, source, file_id, start, current, type, literal) ==
    [current |-> current,
     line |-> l.line,
     column |-> l.column + (current - start),
     tokens |-> Append(l.tokens,
                    Token(type, slice(source, start, current), literal, l.line,
                          l.column,
                          Span(file_id, start, current)))]

\* The characters consumed by one scan step raise a LexError: the lexer stops
\* with the error and the span of the failing region.
LexError(l, q, file_id, start, code) ==
    [current |-> q.current, line |-> q.line, column |-> q.column, tokens |-> l.tokens,
     error |-> [exception |-> from_simple("LexError", code),
                span |-> Span(file_id, start, q.current)]]

\* Lexer.advance from the position q, n times, no newline among the characters
advanced(q, n) == [q EXCEPT !.current = @ + n, !.column = @ + n]

\* The loops that set line and column before advancing over a newline
advanced_over(q, c) ==
    IF c = "\n" THEN [current |-> q.current + 1, line |-> q.line + 1, column |-> 2]
    ELSE advanced(q, 1)

\* Lexer.peek at the offset current, with "" for the character of the end
peek_at(source, current) == IF current >= Len(source) THEN "" ELSE source[current + 1]

\* Lexer.peek_next
peek_next(source, q) == peek_at(source, q.current + 1)

\* Lexer.scan_token, the loop of the single-line comment
RECURSIVE line_comment(_, _)
line_comment(source, q) ==
    IF q.current < Len(source) /\ source[q.current + 1] # "\n"
    THEN line_comment(source, advanced(q, 1))
    ELSE q

\* Lexer.multi_line_comment: the position and the nesting level after its loop
RECURSIVE multi_line_comment(_, _, _)
multi_line_comment(source, q, nesting_level) ==
    IF nesting_level > 0 /\ q.current < Len(source)
    THEN LET c == source[q.current + 1]
         IN  IF c = "/" /\ peek_next(source, q) = "*"
             THEN multi_line_comment(source, advanced(q, 2), nesting_level + 1)
             ELSE IF c = "*" /\ peek_next(source, q) = "/"
             THEN multi_line_comment(source, advanced(q, 2), nesting_level - 1)
             ELSE multi_line_comment(source, advanced_over(q, c), nesting_level)
    ELSE [q |-> q, nesting_level |-> nesting_level]

\* Lexer.string, the escape sequences
escaped_text(escaped, quote_char) ==
    CASE escaped = "n" -> <<"\n">>
      [] escaped = "t" -> <<"\t">>
      [] escaped \in {"\\", "\"", "'", quote_char} -> <<escaped>>
      [] OTHER -> <<"\\", escaped>>

\* Lexer.string, its loop: the position after it, the decoded text, and
\* whether the source ended right after a backslash
RECURSIVE string_loop(_, _, _, _)
string_loop(source, q, quote_char, result) ==
    IF q.current < Len(source) /\ source[q.current + 1] # quote_char
    THEN LET c == source[q.current + 1]
         IN  IF c = "\\"
             THEN IF q.current + 1 >= Len(source)
                  THEN [q |-> advanced(q, 1), result |-> result, cut |-> TRUE]
                  ELSE string_loop(source, advanced(q, 2), quote_char,
                                   result \o escaped_text(source[q.current + 2], quote_char))
             ELSE string_loop(source, advanced_over(q, c), quote_char, Append(result, c))
    ELSE [q |-> q, result |-> result, cut |-> FALSE]

\* Lexer.string after the opening quote at start
string(l, source, file_id, start, quote_char) ==
    LET r == string_loop(source, [current |-> start + 1, line |-> l.line,
                                  column |-> l.column + 1], quote_char, <<>>)
        q == advanced(r.q, 1)
    IN  IF r.cut \/ r.q.current >= Len(source)
        THEN LexError(l, r.q, file_id, start, "LAP1002")
        ELSE [current |-> q.current, line |-> q.line, column |-> q.column,
              tokens |-> Append(l.tokens,
                             Token("STRING", slice(source, start, q.current), Str(r.result),
                                   q.line, q.column - (q.current - start),
                                   Span(file_id, start, q.current)))]

\* Lexer.scan_token for the characters = * / & space newline quote digit
\* letter, and for a character that starts no token
scan_token(l, source, file_id) ==
    LET start == l.current
        c == source[start + 1]
    IN  CASE c = "=" ->
                IF start + 1 < Len(source) /\ source[start + 2] = "="
                THEN add_token(l, source, file_id, start, start + 2, "EQUAL", None)
                ELSE add_token(l, source, file_id, start, start + 1, "ASSIGN", None)
          [] c = " " -> [l EXCEPT !.current = start + 1, !.column = @ + 1]
          [] c = "\n" ->
                [add_token(l, source, file_id, start, start + 1, "NEWLINE", None)
                    EXCEPT !.line = @ + 1, !.column = 1]
          [] isdigit(c) ->
                LET current == run_end(source, start + 1, Digits)
                IN  add_token(l, source, file_id, start, current, "NUMBER",
                              Num(digits_value(slice(source, start, current))))
          [] isalpha(c) \/ c = "_" ->
                LET current == run_end(source, start + 1, Digits \cup Letters \cup {"_"})
                IN  add_token(l, source, file_id, start, current, "IDENTIFIER",
                              slice(source, start, current))
          [] c = "*" ->
                IF peek_at(source, start + 1) = "*"
                THEN add_token(l, source, file_id, start, start + 2, "POWER", None)
                ELSE add_token(l, source, file_id, start, start + 1, "MULTIPLY", None)
          [] c = "/" ->
                LET q == [current |-> start + 2, line |-> l.line, column |-> l.column + 2]
                    n == peek_at(source, start + 1)
                IN  IF n = "/"
                    THEN LET e == line_comment(source, q)
                         IN  [l EXCEPT !.current = e.current, !.column = e.column]
                    ELSE IF n = "*"
                    THEN LET e == multi_line_comment(source, q, 1)
                         IN  IF e.nesting_level > 0
                             THEN LexError(l, e.q, file_id, start, "LAP2005")
                             ELSE [l EXCEPT !.current = e.q.current, !.line = e.q.line,
                                            !.column = e.q.column]
                    ELSE add_token(l, source, file_id, start, start + 1, "DIVIDE", None)
          [] c = "&" ->
                IF peek_at(source, start + 1) = "&"
                THEN add_token(l, source, file_id, start, start + 2, "AND", None)
                ELSE LexError(l, [current |-> start + 1, line |-> l.line,
                                  column |-> l.column + 1], file_id, start, "LAP1001")
          [] c \in {"\"", "'"} -> string(l, source, file_id, start, c)
          [] OTHER ->
                LexError(l, [current |-> start + 1, line |-> l.line,
                             column |-> l.column + 1], file_id, start, "LAP1001")

\* Lexer.tokenize: scan to the end, then the EOF token, which has no span
RECURSIVE scan_tokens(_, _, _)
scan_tokens(l, source, file_id) ==
    IF l.current >= Len(source)
    THEN Append(l.tokens, Token("EOF", <<>>, None, l.line, l.column, None))
    ELSE scan_tokens(scan_token(l, source, file_id), source, file_id)

\* Lexer(source, file_path).tokenize(): the source map and the tokens
Lexer(map, source, file_path) ==
    LET f == add_file(map, file_path, source)
    IN  [map |-> f.map,
         tokens |-> scan_tokens([current |-> 0, line |-> 1, column |-> 1, tokens |-> <<>>],
                                source, f.file_id)]

MaxSourceLen == 2

SourceChars == {"a", "=", "\n"}

Sources == SeqUpTo(SourceChars, MaxSourceLen)

InitLex ==
    /\ program = <<>>
    /\ files = NoFiles
    /\ pc = 1
    /\ st = Interpreter(EmptyState)
    /\ exit = Running
    /\ reset_source_map
    /\ returned = None

Lex(source, file_path) ==
    /\ source_map' = Lexer(source_map, source, file_path).map
    /\ tokens' = Lexer(source_map, source, file_path).tokens
    /\ UNCHANGED <<files, program, pc, st, exit, position, returned>>

\* run_file: Lexer(source, filename) on the main file (lapis.py 31)
LexMain(source) ==
    /\ source_map = SourceMap
    /\ Lex(source, "main.lapis")

\* execute_package_statement: Lexer(source) on an imported file, under the
\* default path (interpreter.py 696)
LexImport(source) ==
    /\ source_map # SourceMap
    /\ Lex(source, "<string>")

\* _evaluate_template_expression: Lexer(expression_text, "<template>")
\* (interpreter.py 1167)
LexTemplate(source) ==
    /\ source_map # SourceMap
    /\ Lex(source, "<template>")

NextLex ==
    \E source \in Sources : LexMain(source) \/ LexImport(source) \/ LexTemplate(source)

SpecLex == InitLex /\ [][NextLex]_vars

\* C17: every token's lexeme equals get_span_text(token.span) through the
\* source map, for the main file, for imported files lexed under the default
\* path and for template expressions lexed under "<template>".
C17_LexemeIsSpanText ==
    \A i \in 1..Len(tokens) :
        tokens[i].span # None => tokens[i].lexeme = get_span_text(source_map, tokens[i].span)

-----------------------------------------------------------------------------
(* Positions: SourceFile.offset_to_position on every text and every offset
   from one before the text to one past its end. *)

MaxContentLen == 3

Contents == SeqUpTo(SourceChars, MaxContentLen)

InitPosition ==
    /\ program = <<>>
    /\ files = NoFiles
    /\ pc = 1
    /\ st = Interpreter(EmptyState)
    /\ exit = Running
    /\ tokens = <<>>
    /\ position = None
    /\ returned = None
    /\ \E content \in Contents :
           source_map = add_file(SourceMap, "main.lapis", content).map

OffsetToPosition(offset) ==
    /\ position' = [offset |-> offset,
                    result |-> offset_to_position(source_map.files[1], offset)]
    /\ UNCHANGED <<files, program, pc, st, exit, source_map, tokens, returned>>

NextPosition ==
    \E offset \in -1..(Len(source_map.files[1].content) + 1) : OffsetToPosition(offset)

SpecPosition == InitPosition /\ [][NextPosition]_vars

\* C18: for every content and every offset o with 0 <= o <= len(content),
\* offset_to_position(o) is a 1-indexed (L, C) with line_starts[L-1] + C - 1
\* = o, where line_starts[L-1] is the largest line start not beyond o; for an
\* offset outside that range the call fails.
C18_OffsetToPosition ==
    position # None =>
        LET file == source_map.files[1]
            o == position.offset
            p == position.result
        IN  IF 0 <= o /\ o <= Len(file.content)
            THEN /\ p.t = "Position"
                 /\ p.line \in 1..Len(file.line_starts)
                 /\ p.column >= 1
                 /\ file.line_starts[p.line] + p.column - 1 = o
                 /\ \A i \in 1..Len(file.line_starts) :
                        file.line_starts[i] <= o => file.line_starts[i] <= file.line_starts[p.line]
            ELSE p = ValueError

\* C18 witness: in a text of two lines the offset of the end of the text,
\* just after the newline, is line 2, column 1.
C18_Witness ==
    /\ position # None
    /\ source_map.files[1].content = <<"a", "\n">>
    /\ position.offset = 2
    /\ position.result = Position(2, 1)

-----------------------------------------------------------------------------
(* The parser, for token streams made of var, identifiers, =, numbers and ;
   the rules between assignment and primary (logical_or ... call) pass such
   tokens through unchanged.  A parsing result is the index of the current
   token, counted from 0, and a node or the ParseError that was raised. *)

Parsed(current, node) == [k |-> "ok", current |-> current, node |-> node]

ParseError(current, code) == [k |-> "ParseError", current |-> current, code |-> code]

peek(toks, current) == toks[current + 1]

is_at_end(toks, current) == peek(toks, current).type = "EOF"

check(toks, current, type) == ~is_at_end(toks, current) /\ peek(toks, current).type = type

\* Parser.advance: the index after consuming the current token
advance(toks, current) == IF is_at_end(toks, current) THEN current ELSE current + 1

consume(toks, current, type) ==
    IF check(toks, current, type) THEN Parsed(current + 1, peek(toks, current))
    ELSE ParseError(current, "LAP2002")

primary(toks, current) ==
    IF check(toks, current, "NUMBER")
    THEN Parsed(current + 1, LiteralExpression(peek(toks, current).literal))
    ELSE IF check(toks, current, "IDENTIFIER")
    THEN Parsed(current + 1, IdentifierExpression(peek(toks, current).literal))
    ELSE ParseError(current, "LAP2003")

\* Parser.assignment, which is Parser.expression
RECURSIVE assignment(_, _)
assignment(toks, current) ==
    LET expr == primary(toks, current)
    IN  IF expr.k # "ok" \/ ~check(toks, expr.current, "ASSIGN") THEN expr
        ELSE LET value == assignment(toks, expr.current + 1)
             IN  IF value.k # "ok" THEN value
                 ELSE IF expr.node.e = "Identifier"
                 THEN Parsed(value.current, AssignmentExpression(expr.node.name, value.node))
                 ELSE ParseError(value.current, "LAP2005")

var_declaration(toks, current) ==
    LET name == consume(toks, current, "IDENTIFIER")
    IN  IF name.k # "ok" THEN name
        ELSE LET initializer ==
                     IF check(toks, name.current, "ASSIGN")
                     THEN assignment(toks, name.current + 1)
                     ELSE Parsed(name.current, NoExpr)
             IN  IF initializer.k # "ok" THEN initializer
                 ELSE LET semicolon == consume(toks, initializer.current, "SEMICOLON")
                      IN  IF semicolon.k # "ok" THEN semicolon
                          ELSE Parsed(semicolon.current,
                                      VarStatement(name.node.literal, initializer.node, PRIVATE))

expression_statement(toks, current) ==
    LET expr == assignment(toks, current)
    IN  IF expr.k # "ok" THEN expr
        ELSE LET semicolon == consume(toks, expr.current, "SEMICOLON")
             IN  IF semicolon.k # "ok" THEN semicolon
                 ELSE Parsed(semicolon.current, ExpressionStatement(expr.node))

\* Parser.previous; Python's tokens[-1] is the last token
previous(toks, current) == IF current = 0 THEN toks[Len(toks)] ELSE toks[current]

\* Parser.synchronize without its first advance()
RECURSIVE synchronize_from_current(_, _)
synchronize_from_current(toks, current) ==
    IF is_at_end(toks, current) THEN current
    ELSE IF previous(toks, current).type = "SEMICOLON" THEN current
    ELSE IF peek(toks, current).type
                \in {"CLASS", "FUNC", "VAR", "FOR", "IF", "WHILE", "RETURN"} THEN current
    ELSE synchronize_from_current(toks, advance(toks, current))

\* Parser.synchronize: skip to the token after a semicolon or to a keyword
\* that starts a statement
RECURSIVE synchronize_loop(_, _)
synchronize_loop(toks, current) ==
    IF is_at_end(toks, current) THEN current
    ELSE IF previous(toks, current).type = "SEMICOLON" THEN current
    ELSE IF peek(toks, current).type
                \in {"CLASS", "FUNC", "VAR", "FOR", "IF", "WHILE", "RETURN"} THEN current
    ELSE synchronize_loop(toks, advance(toks, current))

synchronize(toks, current) == synchronize_loop(toks, advance(toks, current))

\* The result of a rule that holds statement-collecting loops: as Parsed and
\* ParseError, with the number of ParseErrors that declaration() caught on
\* the way.  A loop whose iteration leaves `current` where it was repeats
\* that iteration for ever (nothing else the iteration reads has changed):
\* the rule never returns, which the result "stalled" stands for.
Done(current, node, errors) ==
    [k |-> "ok", current |-> current, node |-> node, errors |-> errors]

Failed(r, errors) ==
    [k |-> r.k, current |-> r.current, code |-> IF r.k = "stalled" THEN "" ELSE r.code,
     errors |-> errors]

Stalled(current, errors) ==
    [k |-> "stalled", current |-> current, code |-> "", errors |-> errors]

\* The rules that call each other: declaration() and the loops that collect
\* statements up to a stop token.
RECURSIVE parse_rule(_, _, _, _)

declaration(toks, current) == parse_rule("declaration", toks, current, <<>>)

\* while not check_any(stops) and not is_at_end(): skip NEWLINE and TAB,
\* else declaration(): the loop of statement_block_until and of the bodies
\* of functions, try, catch, finally, case and default.
statements_until(toks, current, stops, errors) ==
    parse_rule("statements", toks, current,
               [stops |-> stops, statements |-> <<>>, errors |-> errors])

\* while self.match(NEWLINE) or self.match(TAB): pass
RECURSIVE skip_newlines(_, _)
skip_newlines(toks, current) ==
    IF check(toks, current, "NEWLINE") \/ check(toks, current, "TAB")
    THEN skip_newlines(toks, current + 1)
    ELSE current

\* Parser.function_declaration after FUNC, for functions of at most one
\* parameter (the streams hold no COMMA and no POWER)
function_declaration(toks, current) ==
    LET name == consume(toks, current, "IDENTIFIER")
        left == consume(toks, name.current, "LEFT_PAREN")
        param == IF check(toks, left.current, "RIGHT_PAREN")
                 THEN Parsed(left.current, <<>>)
                 ELSE LET ident == consume(toks, left.current, "IDENTIFIER")
                      IN  IF ident.k # "ok" THEN ident
                          ELSE Parsed(ident.current, <<ident.node.literal>>)
        right == consume(toks, param.current, "RIGHT_PAREN")
        body == statements_until(toks, skip_newlines(toks, right.current), {"END"}, 0)
        end == consume(toks, body.current, "END")
    IN  IF name.k # "ok" THEN Failed(name, 0)
        ELSE IF left.k # "ok" THEN Failed(left, 0)
        ELSE IF param.k # "ok" THEN Failed(param, 0)
        ELSE IF right.k # "ok" THEN Failed(right, 0)
        ELSE IF body.k # "ok" THEN body
        ELSE IF end.k # "ok" THEN Failed(end, body.errors)
        ELSE Done(end.current,
                  FunctionStatement(name.node.literal, param.node, body.node, PRIVATE, ""),
                  body.errors)

\* Parser.if_statement, the elif branches
RECURSIVE elif_branches(_, _, _, _)
elif_branches(toks, current, branches, errors) ==
    IF ~check(toks, current, "ELIF") THEN Done(current, branches, errors)
    ELSE LET left == consume(toks, current + 1, "LEFT_PAREN")
             condition == assignment(toks, left.current)
             right == consume(toks, condition.current, "RIGHT_PAREN")
             body == statements_until(toks, skip_newlines(toks, right.current),
                                      {"ELIF", "ELSE", "END"}, errors)
         IN  IF left.k # "ok" THEN Failed(left, errors)
             ELSE IF condition.k # "ok" THEN Failed(condition, errors)
             ELSE IF right.k # "ok" THEN Failed(right, errors)
             ELSE IF body.k # "ok" THEN body
             ELSE elif_branches(toks, body.current,
                                Append(branches,
                                       ElifBranch(condition.node, BlockStatement(body.node))),
                                body.errors)

\* Parser.if_statement after IF
if_statement(toks, current) ==
    LET left == consume(toks, current, "LEFT_PAREN")
        condition == assignment(toks, left.current)
        right == consume(toks, condition.current, "RIGHT_PAREN")
        then_branch == statements_until(toks, skip_newlines(toks, right.current),
                                        {"ELIF", "ELSE", "END"}, 0)
        elifs == elif_branches(toks, then_branch.current, <<>>, then_branch.errors)
        else_branch ==
            IF check(toks, elifs.current, "ELSE")
            THEN statements_until(toks, skip_newlines(toks, elifs.current + 1), {"END"},
                                  elifs.errors)
            ELSE Done(elifs.current, <<>>, elifs.errors)
        end == consume(toks, else_branch.current, "END")
    IN  IF left.k # "ok" THEN Failed(left, 0)
        ELSE IF condition.k # "ok" THEN Failed(condition, 0)
        ELSE IF right.k # "ok" THEN Failed(right, 0)
        ELSE IF then_branch.k # "ok" THEN then_branch
        ELSE IF elifs.k # "ok" THEN elifs
        ELSE IF else_branch.k # "ok" THEN else_branch
        ELSE IF end.k # "ok" THEN Failed(end, else_branch.errors)
        ELSE Done(end.current,
                  IfStatement(condition.node, BlockStatement(then_branch.node),
                              IF check(toks, elifs.current, "ELSE")
                              THEN BlockStatement(else_branch.node) ELSE NoStmt,
                              elifs.node),
                  else_branch.errors)

\* Parser.try_statement, the catch clauses
RECURSIVE catch_clauses(_, _, _, _)
catch_clauses(toks, current, clauses, errors) ==
    IF ~check(toks, current, "CATCH") THEN Done(current, clauses, errors)
    ELSE LET variable ==
                 IF check(toks, current + 1, "LEFT_PAREN")
                 THEN LET name == consume(toks, current + 2, "IDENTIFIER")
                          right == consume(toks, name.current, "RIGHT_PAREN")
                      IN  IF name.k # "ok" THEN name
                          ELSE IF right.k # "ok" THEN right
                          ELSE Parsed(right.current, name.node.literal)
                 ELSE Parsed(current + 1, "")
             body == statements_until(toks, skip_newlines(toks, variable.current),
                                      {"CATCH", "FINALLY", "END"}, errors)
         IN  IF variable.k # "ok" THEN Failed(variable, errors)
             ELSE IF body.k # "ok" THEN body
             ELSE catch_clauses(toks, body.current,
                                Append(clauses, CatchClause(variable.node, body.node)),
                                body.errors)

\* Parser.try_statement after TRY
try_statement(toks, current) ==
    LET try_body == statements_until(toks, skip_newlines(toks, current),
                                     {"CATCH", "FINALLY", "END"}, 0)
        clauses == catch_clauses(toks, try_body.current, <<>>, try_body.errors)
        finally_body ==
            IF check(toks, clauses.current, "FINALLY")
            THEN statements_until(toks, skip_newlines(toks, clauses.current + 1), {"END"},
                                  clauses.errors)
            ELSE Done(clauses.current, <<>>, clauses.errors)
        end == consume(toks, finally_body.current, "END")
    IN  IF try_body.k # "ok" THEN try_body
        ELSE IF clauses.k # "ok" THEN clauses
        ELSE IF finally_body.k # "ok" THEN finally_body
        ELSE IF end.k # "ok" THEN Failed(end, finally_body.errors)
        ELSE Done(end.current, TryStatement(try_body.node, clauses.node, finally_body.node),
                  finally_body.errors)

\* Parser.switch_statement, the values of a case
RECURSIVE case_values(_, _, _)
case_values(toks, current, values) ==
    LET value == assignment(toks, current)
    IN  IF value.k # "ok" THEN value
        ELSE IF check(toks, value.current, "COMMA")
        THEN case_values(toks, value.current + 1, Append(values, value.node))
        ELSE Parsed(value.current, Append(values, value.node))

\* Parser.switch_statement, the case and default clauses
RECURSIVE case_clauses(_, _, _, _)
case_clauses(toks, current, cases, errors) ==
    IF ~(check(toks, current, "CASE") \/ check(toks, current, "DEFAULT"))
    THEN Done(current, cases, errors)
    ELSE LET is_default == check(toks, current, "DEFAULT")
             values == IF is_default THEN Parsed(current + 1, <<>>)
                       ELSE case_values(toks, current + 1, <<>>)
             colon == consume(toks, values.current, "COLON")
             body == statements_until(toks, skip_newlines(toks, colon.current),
                                      {"CASE", "DEFAULT", "END"}, errors)
         IN  IF values.k # "ok" THEN Failed(values, errors)
             ELSE IF colon.k # "ok" THEN Failed(colon, errors)
             ELSE IF body.k # "ok" THEN body
             ELSE case_clauses(toks, body.current,
                               Append(cases, CaseClause(values.node, body.node, is_default)),
                               body.errors)

\* Parser.switch_statement after SWITCH
switch_statement(toks, current) ==
    LET left == consume(toks, current, "LEFT_PAREN")
        expression == assignment(toks, left.current)
        right == consume(toks, expression.current, "RIGHT_PAREN")
        cases == case_clauses(toks, skip_newlines(toks, right.current), <<>>, 0)
        end == consume(toks, cases.current, "END")
    IN  IF left.k # "ok" THEN Failed(left, 0)
        ELSE IF expression.k # "ok" THEN Failed(expression, 0)
        ELSE IF right.k # "ok" THEN Failed(right, 0)
        ELSE IF cases.k # "ok" THEN cases
        ELSE IF end.k # "ok" THEN Failed(end, cases.errors)
        ELSE Done(end.current, SwitchStatement(expression.node, cases.node), cases.errors)

\* Parser.declaration, its try / except around the statement it parsed: a
\* ParseError is caught, the parser synchronizes and the declaration is None
\* (NoStmt).  stmt is the result of the rule that was chosen.
declaration_except(toks, stmt, caught) ==
    IF stmt.k = "ok"
    THEN [current |-> stmt.current, stmt |-> stmt.node, errors |-> caught, stalled |-> FALSE]
    ELSE IF stmt.k = "stalled"
    THEN [current |-> stmt.current, stmt |-> NoStmt, errors |-> caught, stalled |-> TRUE]
    ELSE [current |-> synchronize(toks, stmt.current), stmt |-> NoStmt,
          errors |-> caught + 1, stalled |-> FALSE]

\* The ParseErrors caught inside the rule that gave the result r
caught_in(r) == IF "errors" \in DOMAIN r THEN r.errors ELSE 0

declaration_of(toks, stmt) == declaration_except(toks, stmt, caught_in(stmt))

\* One iteration of a statement-collecting loop, after its declaration() d
statements_next(rule, toks, current, loop, d) ==
    IF d.stalled \/ d.current = current
    THEN Stalled(current, loop.errors + d.errors)
    ELSE parse_rule(rule, toks, d.current,
                    [loop EXCEPT !.statements = IF d.stmt = NoStmt THEN @
                                                ELSE Append(@, d.stmt),
                                 !.errors = @ + d.errors])

\* Parser.declaration (lines 31-50) with Parser.statement, and the loops:
\* an iteration is declaration() from a token that is neither a stop token
\* nor EOF.
parse_rule(rule, toks, current, loop) ==
    IF rule = "declaration"
    THEN declaration_of(toks,
             CASE check(toks, current, "VAR") -> var_declaration(toks, current + 1)
               [] check(toks, current, "FUNC") -> function_declaration(toks, current + 1)
               [] check(toks, current, "IF") -> if_statement(toks, current + 1)
               [] check(toks, current, "TRY") -> try_statement(toks, current + 1)
               [] check(toks, current, "SWITCH") -> switch_statement(toks, current + 1)
               [] OTHER -> expression_statement(toks, current))
    ELSE IF is_at_end(toks, current) \/ \E type \in loop.stops : check(toks, current, type)
    THEN Done(current, loop.statements, loop.errors)
    ELSE IF check(toks, current, "NEWLINE") \/ check(toks, current, "TAB")
    THEN parse_rule(rule, toks, current + 1, loop)
    ELSE statements_next(rule, toks, current, loop,
                         parse_rule("declaration", toks, current, <<>>))

RECURSIVE parse_loop(_, _, _, _)

\* Parser.parse, one iteration of its loop after its declaration() d
parse_next(toks, current, statements, errors, d) ==
    IF d.stalled \/ d.current = current
    THEN [statements |-> statements, errors |-> errors + d.errors, stalled |-> TRUE,
          current |-> current]
    ELSE parse_loop(toks, d.current,
                    IF d.stmt = NoStmt THEN statements ELSE Append(statements, d.stmt),
                    errors + d.errors)

\* Parser.parse: the statements, how many ParseErrors were raised, and
\* whether the parser got into an iteration that consumes no token
parse_loop(toks, current, statements, errors) ==
    IF is_at_end(toks, current)
    THEN [statements |-> statements, errors |-> errors, stalled |-> FALSE,
          current |-> current]
    ELSE IF check(toks, current, "NEWLINE") \/ check(toks, current, "TAB")
    THEN parse_loop(toks, current + 1, statements, errors)
    ELSE parse_next(toks, current, statements, errors, declaration(toks, current))

parse(toks) == parse_loop(toks, 0, <<>>, 0)

MaxTokens == 5

\* var   a   =   1   ;
TokenAlphabet ==
    {Token("VAR", <<>>, None, 1, 1, Span(1, 0, 0)),
     Token("IDENTIFIER", <<>>, "a", 1, 1, Span(1, 0, 0)),
     Token("ASSIGN", <<>>, None, 1, 1, Span(1, 0, 0)),
     Token("NUMBER", <<>>, Num(1), 1, 1, Span(1, 0, 0)),
     Token("SEMICOLON", <<>>, None, 1, 1, Span(1, 0, 0))}

TokenStreams ==
    {stream \o <<Token("EOF", <<>>, None, 1, 1, None)>> :
         stream \in SeqUpTo(TokenAlphabet, MaxTokens)}

\* run_file after Lexer.tokenize and Parser.parse (lapis.py 31-36), which
\* raise nothing on these streams.
InitParse ==
    /\ tokens \in TokenStreams
    /\ program = parse(tokens).statements
    /\ files = NoFiles
    /\ pc = 1
    /\ st = Interpreter(EmptyState)
    /\ exit = Running
    /\ source_map = SourceMap
    /\ position = None
    /\ returned = None

SpecParse == InitParse /\ [][Next]_vars

\* C19: any parse error is recorded as a diagnostic, no statement of the
\* program is evaluated and the run exits with status 1 and the code of the
\* parse error; the exit status is 0 only when no error was produced.
C19_ParseErrorStopsRun ==
    parse(tokens).errors > 0
        => /\ pc = 1
           /\ st = Interpreter(EmptyState)
           /\ exit.done => (exit.status = 1 /\ exit.code \in {"LAP2002", "LAP2003", "LAP2005"})

-----------------------------------------------------------------------------
(* Environment.get and Environment.assign through nested scopes *)

\* The bodies that run in an Environment of their own, enclosed by the one
\* they are entered from.
ScopeForms == {"if", "while", "for", "function"}

\* The statements that run `body` inside one scope of the given form.
InScope(form, body) ==
    CASE form = "if" -> <<IfStatement(True, BlockStatement(body), NoStmt, <<>>)>>
      [] form = "while" ->
            <<VarStatement("go", True, PRIVATE),
              WhileStatement(Id("go"),
                  BlockStatement(<<ExpressionStatement(AssignmentExpression("go", False))>>
                                 \o body))>>
      [] form = "for" ->
            <<ForStatement("i", ArrayExpression(<<Lit(Num(1))>>), BlockStatement(body))>>
      [] form = "function" ->
            <<FunctionStatement("f", <<>>, body, PRIVATE, ""),
              ExpressionStatement(CallExpression(Id("f"), <<>>))>>

\* Scope 0 is the global one, scope 1 a body in it, scope 2 a body in that body.
Scopes == {0, 1, 2}

Innermost == CHOOSE scope \in Scopes : \A other \in Scopes : other <= scope

\* What the innermost scope does with x:  Console.print(x);  or
\* x = "new"; Console.print(x);
Operations == {"get", "assign"}

Initial(scope) == "v" \o ToString(scope)

\* var x = "v<scope>";  when the scope declares x
DeclarationIn(scope, declared) ==
    IF scope \in declared
    THEN <<VarStatement("x", Lit(Str(Initial(scope))), PRIVATE)>>
    ELSE <<>>

Operation(operation) ==
    IF operation = "assign"
    THEN <<ExpressionStatement(AssignmentExpression("x", Lit(Str("new")))), SayExpr(Id("x"))>>
    ELSE <<SayExpr(Id("x"))>>

\* x is declared in the scopes of `declared`; the innermost scope reads or
\* assigns x, and every scope prints x before it ends.
LookupProgram(declared, operation, outer, inner) ==
    DeclarationIn(0, declared)
        \o InScope(outer,
               DeclarationIn(1, declared)
                   \o InScope(inner, DeclarationIn(2, declared) \o Operation(operation))
                   \o <<SayExpr(Id("x"))>>)
        \o <<SayExpr(Id("x"))>>

LookupPrograms ==
    {LookupProgram(declared, operation, outer, inner) :
         declared \in SUBSET Scopes, operation \in Operations,
         outer \in ScopeForms, inner \in ScopeForms}

InitLookup ==
    /\ program \in LookupPrograms
    /\ files = NoFiles
    /\ pc = 1
    /\ st = Interpreter(EmptyState)
    /\ exit = Running
    /\ reset_source_map
    /\ returned = None

SpecLookup == InitLookup /\ [][Next]_vars

\* The scopes of `declared` that a lookup from `scope` walks through.
Chain(scope, declared) == {d \in declared : d <= scope}

\* The first scope of the chain from `scope` that binds x.
Binding(scope, declared) ==
    CHOOSE d \in Chain(scope, declared) : \A other \in Chain(scope, declared) : other <= d

\* The value of the binding of x in scope d once the innermost scope has acted.
BoundIn(d, declared, operation) ==
    IF operation = "assign" /\ d = Binding(Innermost, declared)
    THEN Str("new") ELSE Str(Initial(d))

\* What the scopes print, innermost first, up to the first scope whose chain
\* does not bind x.
RECURSIVE Printed(_, _, _)
Printed(scope, declared, operation) ==
    IF Chain(scope, declared) = {} THEN <<>>
    ELSE <<<<BoundIn(Binding(scope, declared), declared, operation)>>>>
         \o (IF scope = 0 THEN <<>> ELSE Printed(scope - 1, declared, operation))

\* The values x is bound to, over all environments of the run.
Bindings(s) ==
    {<<env, s.envs[env].values["x"].value>> :
         env \in {e \in 1..Len(s.envs) : "x" \in DOMAIN s.envs[e].values}}

\* C20: identifier lookup returns the value bound in the innermost scope of the
\* environment chain that binds the name, and an assignment updates that same
\* binding and no other; when no scope of the chain binds the name, both fail
\* with LAP4001 and no binding is created or changed.
C20_InnermostBinding ==
    exit.done =>
        \A declared \in SUBSET Scopes, operation \in Operations,
           outer \in ScopeForms, inner \in ScopeForms :
            program = LookupProgram(declared, operation, outer, inner)
                => /\ st.out = Printed(Innermost, declared, operation)
                   /\ exit = IF 0 \in declared THEN Exit(0, "") ELSE Exit(1, "LAP4001")
                   /\ Cardinality(Bindings(st)) = Cardinality(declared)
                   /\ {b[2] : b \in Bindings(st)}
                          = {BoundIn(d, declared, operation) : d \in declared}

\* C20 witness: x is declared globally and in the outer body, the inner body
\* has assigned it, and only the outer body's binding has changed.
C20_Witness ==
    /\ exit.done
    /\ \E outer \in ScopeForms, inner \in ScopeForms :
           program = LookupProgram({0, 1}, "assign", outer, inner)
    /\ st.out = <<Said("new"), Said("new"), Said("v0")>>

-----------------------------------------------------------------------------
(* Environment.get and Environment.assign called from an external file *)

MaxChain == 3

\* What a scope holds for x: nothing, or a binding with an access modifier.
Modifiers == {"none", PRIVATE, PUBLIC}

Original(env) == Str("v" \o ToString(env))

\* Environments 1..Len(modifiers), each enclosed by the one before it (1 is
\* the global one of Interpreter.__init__), binding x as modifiers says.
RECURSIVE Chained(_, _)
Chained(s, modifiers) ==
    IF modifiers = <<>> THEN s
    ELSE LET s1 == IF s.envs = <<>> THEN Interpreter(s) ELSE Environment(s, LastEnv(s))
             env == LastEnv(s1)
             s2 == IF Head(modifiers) = "none" THEN s1
                   ELSE define(s1, env, "x", Original(env), Head(modifiers))
         IN  Chained(s2, Tail(modifiers))

InitAccess ==
    /\ program = <<>>
    /\ files = NoFiles
    /\ pc = 1
    /\ \E n \in 1..MaxChain : \E modifiers \in [1..n -> Modifiers] :
           st = Chained(EmptyState, modifiers)
    /\ exit = Running
    /\ reset_source_map
    /\ returned = None

Called(method, env, name, external, r) ==
    [t |-> "call", method |-> method, env |-> env, name |-> name,
     from_external_file |-> external, before |-> st.envs, k |-> r.k, v |-> r.v]

\* env.get(name, from_external_file)
EnvironmentGet ==
    \E env \in 1..Len(st.envs), name \in {"x", "y"}, external \in BOOLEAN :
        /\ LET r == get(st, env, name, external)
           IN  /\ st' = r.s
               /\ returned' = Called("get", env, name, external, r)
        /\ UNCHANGED <<files, program, pc, exit, source_map, tokens, position>>

\* env.assign(name, "new", from_external_file)
EnvironmentAssign ==
    \E env \in 1..Len(st.envs), name \in {"x", "y"}, external \in BOOLEAN :
        /\ LET r == assign(st, env, name, Str("new"), external)
           IN  /\ st' = r.s
               /\ returned' = Called("assign", env, name, external, r)
        /\ UNCHANGED <<files, program, pc, exit, source_map, tokens, position>>

NextAccess == EnvironmentGet \/ EnvironmentAssign

SpecAccess == InitAccess /\ [][NextAccess]_vars

\* The environments of the chain of env that bound the name before the call.
Binders(made) ==
    {e \in 1..made.env : made.name \in DOMAIN made.before[e].values}

\* C21: a read or an assignment made with from_external_file set succeeds
\* exactly when the innermost binding of the name is public; on a private
\* binding it fails with LAP4002 and leaves every binding's value and access
\* modifier as they were.
C21_ExternalAccess ==
    (returned # None /\ returned.from_external_file) =>
        LET binders == Binders(returned)
            innermost == CHOOSE e \in binders : \A other \in binders : other <= e
            binding == returned.before[innermost].values[returned.name]
        IN  /\ returned.k = "ok"
                <=> (binders # {} /\ binding.access_modifier = PUBLIC)
            /\ (binders # {} /\ binding.access_modifier = PRIVATE)
                => /\ returned.k = "Exception"
                   /\ returned.v = Exc("AccessError", "LAP4002")
                   /\ st.envs = returned.before
            /\ (returned.k = "ok" /\ returned.method = "get")
                => /\ returned.v = binding.value
                   /\ st.envs = returned.before
            /\ (returned.k = "ok" /\ returned.method = "assign")
                => st.envs = [returned.before EXCEPT
                                 ![innermost].values[returned.name].value = Str("new")]

\* C21 witness: an external assignment to x was refused with LAP4002 because
\* the innermost binding is private, although an enclosing scope binds x
\* publicly.
C21_Witness ==
    /\ returned # None
    /\ returned.method = "assign"
    /\ returned.from_external_file
    /\ returned.k = "Exception"
    /\ returned.v = Exc("AccessError", "LAP4002")
    /\ \E e \in Binders(returned) :
           returned.before[e].values[returned.name].access_modifier = PUBLIC

-----------------------------------------------------------------------------
(* Diagnostic and LapisError (src/errors.py) *)

\* LabeledSpan(span, label, is_primary=...): the style is left to __post_init__,
\* as in every construction of the program.
LabeledSpan(span_, label, is_primary) ==
    [span |-> span_, label |-> label, is_primary |-> is_primary,
     style |-> IF is_primary THEN "primary" ELSE "secondary"]

\* A Diagnostic that keeps its labels as they were given.
Diagnostic_as_given(code, message, labels) ==
    [code |-> code, message |-> message, labels |-> labels]

\* Diagnostic(code, severity, message, labels) and its __post_init__: with no
\* primary label the first one becomes primary; with several, every one
\* after the first is made secondary.
Diagnostic(code, message, labels) ==
    LET primaries == {i \in 1..Len(labels) : labels[i].is_primary}
        first == CHOOSE i \in primaries : \A j \in primaries : i <= j
    IN  [code |-> code, message |-> message,
         labels |->
            IF primaries = {} /\ labels # <<>>
            THEN [labels EXCEPT ![1].is_primary = TRUE, ![1].style = "primary"]
            ELSE IF Cardinality(primaries) > 1
            THEN [i \in 1..Len(labels) |->
                     IF labels[i].is_primary /\ i # first
                     THEN [labels[i] EXCEPT !.is_primary = FALSE, !.style = "secondary"]
                     ELSE labels[i]]
            ELSE labels]

\* Diagnostic.primary_span
primary_span(diagnostic) ==
    LET primaries == {i \in 1..Len(diagnostic.labels) : diagnostic.labels[i].is_primary}
    IN  IF primaries = {} THEN None
        ELSE diagnostic.labels[CHOOSE i \in primaries : \A j \in primaries : i <= j].span

\* SourceMap.resolve_span and SourceFile.span_to_positions: the start position,
\* or ValueError.
resolve_span(map, span_) ==
    IF span_.file_id \notin 1..Len(map.files) THEN ValueError
    ELSE LET source_file == map.files[span_.file_id]
             start_pos == offset_to_position(source_file, span_.start)
             last == IF span_.start > span_.end - 1 THEN span_.start ELSE span_.end - 1
             end_pos == offset_to_position(source_file, last)
         IN  IF start_pos = ValueError \/ end_pos = ValueError THEN ValueError
             ELSE start_pos

\* LapisError._format_simple_message: "Error [code]: message", followed by
\* " at file:line:column" when the primary span resolves.
_format_simple_message(diagnostic, map) ==
    LET bare == [code |-> diagnostic.code, message |-> diagnostic.message, at |-> None]
    IN  IF primary_span(diagnostic) = None THEN bare
        ELSE LET start_pos == resolve_span(map, primary_span(diagnostic))
             IN  IF start_pos = ValueError THEN bare
                 ELSE [bare EXCEPT !.at = start_pos]

\* LapisError(diagnostic)
LapisError(diagnostic, map) ==
    [t |-> "LapisError", diagnostic |-> diagnostic,
     args |-> _format_simple_message(diagnostic, map)]

MaxLabels == 3

\* A span of the main file and a span of a file that was never registered.
LabelSpans == {Span(1, 0, 1), Span(0, 0, 1)}

LabelLists ==
    UNION {[1..n -> {LabeledSpan(span_, "label", is_primary) :
                        span_ \in LabelSpans, is_primary \in BOOLEAN}] : n \in 0..MaxLabels}

InitDiagnostic ==
    /\ program = <<>>
    /\ files = NoFiles
    /\ pc = 1
    /\ st = Interpreter(EmptyState)
    /\ exit = Running
    /\ tokens = <<>>
    /\ position = None
    /\ returned = None
    /\ \E content \in Contents :
           source_map = add_file(SourceMap, "main.lapis", content).map

\* LapisError(Diagnostic(code, severity, message, labels)), once in a run
Construct ==
    /\ returned = None
    /\ \E labels \in LabelLists :
           returned' = [given |-> labels,
                        error |-> LapisError(Diagnostic("LAP3001", "message", labels),
                                             source_map)]
    /\ UNCHANGED <<files, program, pc, st, exit, source_map, tokens, position>>

\* LapisError.from_simple(code, message, span)
FromSimple ==
    /\ returned = None
    /\ \E span_ \in LabelSpans \cup {None} :
           LET labels == IF span_ = None THEN <<>>
                         ELSE <<LabeledSpan(span_, "message", TRUE)>>
           IN  returned' = [given |-> labels,
                            error |-> LapisError(Diagnostic("LAP4003", "message", labels),
                                                 source_map)]
    /\ UNCHANGED <<files, program, pc, st, exit, source_map, tokens, position>>

NextDiagnostic == Construct \/ FromSimple

SpecDiagnostic == InitDiagnostic /\ [][NextDiagnostic]_vars

\* C22: a constructed Diagnostic with at least one label has exactly one
\* label marked primary, with style "primary", and every other label has
\* style "secondary", whatever primary flags were given; a Diagnostic with no
\* labels has no primary span and its error message is the bare message.
C22_ExactlyOnePrimary ==
    returned # None =>
        LET diagnostic == returned.error.diagnostic
            labels == diagnostic.labels
            primaries == {i \in 1..Len(labels) : labels[i].is_primary}
        IN  /\ Len(labels) = Len(returned.given)
            /\ \A i \in 1..Len(labels) : labels[i].span = returned.given[i].span
            /\ labels # <<>> =>
                  /\ Cardinality(primaries) = 1
                  /\ \A i \in 1..Len(labels) :
                         labels[i].style = IF i \in primaries THEN "primary"
                                           ELSE "secondary"
            /\ labels = <<>> =>
                  /\ primary_span(diagnostic) = None
                  /\ returned.error.args.at = None

\* C22 witness: three labels were all given as primary and the Diagnostic
\* keeps only the first of them primary.
C22_Witness ==
    /\ returned # None
    /\ Len(returned.given) = MaxLabels
    /\ \A i \in 1..MaxLabels : returned.given[i].is_primary
    /\ returned.error.diagnostic.labels[1].is_primary
    /\ \A i \in 2..MaxLabels : ~returned.error.diagnostic.labels[i].is_primary

-----------------------------------------------------------------------------
(* break and continue in a case body of a switch inside a loop *)

\* How a case body goes on after its first print: to its second print, or
\* with a break or a continue, bare or inside an if.
CaseEndings == {"plain", "break", "continue", "if break", "if continue"}

CaseEnding(ending) ==
    CASE ending = "plain" -> <<>>
      [] ending = "break" -> <<BreakStatement>>
      [] ending = "continue" -> <<ContinueStatement>>
      [] ending = "if break" ->
            <<IfStatement(True, BlockStatement(<<BreakStatement>>), NoStmt, <<>>)>>
      [] ending = "if continue" ->
            <<IfStatement(True, BlockStatement(<<ContinueStatement>>), NoStmt, <<>>)>>

\* Console.print("body i"); <ending> Console.print("tail i");
CaseBody(i, ending) ==
    <<Say("body " \o ToString(i))>> \o CaseEnding(ending) \o <<Say("tail " \o ToString(i))>>

\* The loops pass 1, 2 and 3; 1 and 2 have a case, 3 goes to default.
MaxPasses == 3

\* switch (e)  case 1: ...  case 2: ...  default: ...  end
SwitchIn(e, endings) ==
    SwitchStatement(e,
        [i \in 1..MaxPasses |->
            IF i < MaxPasses THEN CaseClause(<<Lit(Num(i))>>, CaseBody(i, endings[i]), FALSE)
            ELSE CaseClause(<<>>, CaseBody(i, endings[i]), TRUE)])

Loops == {"for", "while", "none"}

\* The switch and Console.print("after") as the body of a for loop over
\* [1, 2, 3], or of a while loop that counts n up to 3, or in no loop at all
\* as switch (1).
LoopSwitchProgram(loop, endings) ==
    IF loop = "none"
    THEN <<SwitchIn(Lit(Num(1)), endings), Say("after"), Say("end")>>
    ELSE IF loop = "for"
    THEN <<ForStatement("i", ArrayExpression([i \in 1..MaxPasses |-> Lit(Num(i))]),
                        BlockStatement(<<SwitchIn(Id("i"), endings), Say("after")>>)),
           Say("end")>>
    ELSE <<VarStatement("n", Lit(Num(0)), PRIVATE),
           WhileStatement(BinaryExpression(Id("n"), "<", Lit(Num(MaxPasses))),
               BlockStatement(
                   <<ExpressionStatement(AssignmentExpression("n",
                         BinaryExpression(Id("n"), "+", Lit(Num(1))))),
                     SwitchIn(Id("n"), endings), Say("after")>>)),
           Say("end")>>

LoopSwitchPrograms ==
    {LoopSwitchProgram(loop, endings) :
         loop \in Loops, endings \in [1..MaxPasses -> CaseEndings]}

InitLoopSwitch ==
    /\ program \in LoopSwitchPrograms
    /\ files = NoFiles
    /\ pc = 1
    /\ st = Interpreter(EmptyState)
    /\ exit = Running
    /\ reset_source_map
    /\ returned = None

SpecLoopSwitch == InitLoopSwitch /\ [][Next]_vars

\* What pass i prints.
RECURSIVE PassOutput(_, _)
PassOutput(i, endings) ==
    IF i > MaxPasses THEN <<>>
    ELSE <<Said("body " \o ToString(i))>>
         \o (CASE endings[i] = "plain" -> <<Said("tail " \o ToString(i)), Said("after")>>
               [] endings[i] \in {"break", "if break"} -> <<Said("after")>>
               [] OTHER -> <<>>)
         \o PassOutput(i + 1, endings)

\* C23: a break in a case body ends the switch only and the loop goes on with
\* the statement after the switch; a continue in a case body passes through
\* the switch and starts the next pass of the loop (outside any loop it ends
\* the run with LAP9002); no body but the selected one runs.
C23_BreakLeavesSwitchOnly ==
    exit.done =>
        \A loop \in Loops, endings \in [1..MaxPasses -> CaseEndings] :
            program = LoopSwitchProgram(loop, endings)
                => IF loop # "none"
                   THEN /\ exit = Exit(0, "")
                        /\ st.out = PassOutput(1, endings) \o <<Said("end")>>
                   ELSE IF endings[1] \in {"continue", "if continue"}
                   THEN /\ exit = Exit(1, "LAP9002")
                        /\ st.out = <<Said("body 1")>>
                   ELSE /\ exit = Exit(0, "")
                        /\ st.out = <<Said("body 1")>>
                                        \o (IF endings[1] = "plain" THEN <<Said("tail 1")>>
                                            ELSE <<>>)
                                        \o <<Said("after"), Said("end")>>

\* C23 witness: the first pass of a while loop broke out of its case inside
\* an if, the second continued, and the loop still reached its third pass.
C23_Witness ==
    /\ exit.done
    /\ \E ending \in CaseEndings :
           program = LoopSwitchProgram("while",
                         <<"if break", "continue", ending>>)
    /\ SubSeq(st.out, 1, 4) = <<Said("body 1"), Said("after"), Said("body 2"), Said("body 3")>>

-----------------------------------------------------------------------------
(* for var in expr *)

MaxItems == 3

ItemValues == {1, 2}

\* [e1, ..., en] over ItemValues, or an expression that is no array.
Iterables ==
    {ArrayExpression([i \in 1..Len(items) |-> Lit(Num(items[i]))]) :
         items \in SeqUpTo(ItemValues, MaxItems)}
    \cup {Lit(Str("ab")), Lit(Num(1)), Lit(Null),
          DictionaryExpression(<<<<Lit(Num(1)), Lit(Num(2))>>>>)}

\* Nothing, or  if (i == on) break; end  or  if (i == on) continue; end
Stops ==
    {<<>>} \cup
    {<<IfStatement(BinaryExpression(Id("i"), "==", Lit(Num(on))),
                   BlockStatement(<<stop>>), NoStmt, <<>>)>> :
         on \in ItemValues, stop \in {BreakStatement, ContinueStatement}}

\* func none() Console.print("none"); end
\* var keep = none;
\* for i in <iterable>
\*   func g() Console.print(i); end
\*   if (i == <kept>) keep = g; end
\*   <stop>
\*   g();
\* end
\* keep();
\* Console.print(i);   or   Console.print("end");
ForProgram(iterable, kept, stop, probe) ==
    <<FunctionStatement("none", <<>>, <<Say("none")>>, PRIVATE, ""),
      VarStatement("keep", Id("none"), PRIVATE),
      ForStatement("i", iterable,
          BlockStatement(
              <<FunctionStatement("g", <<>>, <<SayExpr(Id("i"))>>, PRIVATE, ""),
                IfStatement(BinaryExpression(Id("i"), "==", Lit(Num(kept))),
                    BlockStatement(<<ExpressionStatement(
                                        AssignmentExpression("keep", Id("g")))>>),
                    NoStmt, <<>>)>>
              \o stop
              \o <<ExpressionStatement(CallExpression(Id("g"), <<>>))>>)),
      ExpressionStatement(CallExpression(Id("keep"), <<>>)),
      IF probe THEN SayExpr(Id("i")) ELSE Say("end")>>

ForPrograms ==
    {ForProgram(iterable, kept, stop, probe) :
         iterable \in Iterables, kept \in ItemValues, stop \in Stops, probe \in BOOLEAN}

InitFor ==
    /\ program \in ForPrograms
    /\ files = NoFiles
    /\ pc = 1
    /\ st = Interpreter(EmptyState)
    /\ exit = Running
    /\ reset_source_map
    /\ returned = None

SpecFor == InitFor /\ [][Next]_vars

\* The parts of a ForProgram, read back from it.
IterableOf(prog) == prog[3].iterable

KeptOf(prog) == prog[3].body.statements[2].condition.right.value.v

StopOf(prog) ==
    IF Len(prog[3].body.statements) = 3 THEN [on |-> 0, stop |-> NoStmt]
    ELSE [on |-> prog[3].body.statements[3].condition.right.value.v,
          stop |-> prog[3].body.statements[3].then_branch.statements[1]]

\* The elements whose pass is started, in order: up to a break.
RECURSIVE Started(_, _)
Started(items, stop) ==
    IF items = <<>> THEN <<>>
    ELSE IF Head(items) = stop.on /\ stop.stop = BreakStatement THEN <<Head(items)>>
    ELSE <<Head(items)>> \o Started(Tail(items), stop)

\* C24: for var in expr fails unless expr is an array; otherwise the body runs
\* once per element in order, each pass in a fresh environment binding var,
\* so that a closure kept from one pass still prints the element of that pass
\* after the loop; break ends the loop, continue skips to the next element,
\* and var is not bound after the loop.
C24_ForEach ==
    (exit.done /\ program \in ForPrograms) =>
        LET iterable == IterableOf(program)
            stop == StopOf(program)
            items == [i \in 1..Len(iterable.elements) |-> iterable.elements[i].value.v]
            started == Started(items, stop)
            printed == SelectSeq(started, LAMBDA e : e # stop.on)
            kept == {i \in 1..Len(started) : started[i] = KeptOf(program)}
        IN  IF iterable.e # "Array"
            THEN exit.status = 1 /\ st.out = <<>>
            ELSE /\ SubSeq(st.out, 1, Len(printed) + 1)
                        = [i \in 1..Len(printed) |-> <<Num(printed[i])>>]
                          \o <<IF kept = {} THEN Said("none")
                               ELSE <<Num(KeptOf(program))>>>>
                 /\ IF program[5] = Say("end")
                    THEN exit = Exit(0, "") /\ Len(st.out) = Len(printed) + 2
                    ELSE exit = Exit(1, "LAP4001") /\ Len(st.out) = Len(printed) + 1

\* C24 witness: over [1, 2, 2] with a continue on 2 only the first pass
\* printed, and the closure kept from that first pass prints 1 after the loop.
C24_Witness ==
    /\ exit.done
    /\ program \in ForPrograms
    /\ IterableOf(program).e = "Array"
    /\ Len(IterableOf(program).elements) = 3
    /\ StopOf(program) = [on |-> 2, stop |-> ContinueStatement]
    /\ KeptOf(program) = 1
    /\ st.out = <<<<Num(1)>>, <<Num(1)>>>>
    /\ exit = Exit(1, "LAP4001")

-----------------------------------------------------------------------------
(* LapisFunction.call: the free variables of a function body *)

\* Console.print(x);   or   Console.print(x); x = "written";
CalleeBody(operation) ==
    <<SayExpr(Id("x"))>>
    \o (IF operation = "assign"
        THEN <<ExpressionStatement(AssignmentExpression("x", Lit(Str("written"))))>>
        ELSE <<>>)

\* Where callee is declared: at top level, or inside maker, which has an x of
\* its own and returns the function.
DeclaredAt == {"global", "maker"}

\* func callee() <body> end
\* or
\* func maker() var x = "captured"; func inner() <body> end return inner; end
\* var callee = maker();
CalleeDeclaration(at, operation) ==
    IF at = "global"
    THEN <<FunctionStatement("callee", <<>>, CalleeBody(operation), PRIVATE, "")>>
    ELSE <<FunctionStatement("maker", <<>>,
               <<VarStatement("x", Lit(Str("captured")), PRIVATE),
                 FunctionStatement("inner", <<>>, CalleeBody(operation), PRIVATE, ""),
                 ReturnStatement(Id("inner"))>>, PRIVATE, ""),
           VarStatement("callee", CallExpression(Id("maker"), <<>>), PRIVATE)>>

\* [var x = "global";]  <callee>
\* <form> [var x = "local";] callee(); Console.print(x); callee(); end
\* Console.print(x);
ClosureProgram(global, at, operation, form, local) ==
    (IF global THEN <<VarStatement("x", Lit(Str("global")), PRIVATE)>> ELSE <<>>)
    \o CalleeDeclaration(at, operation)
    \o InScope(form,
           (IF local THEN <<VarStatement("x", Lit(Str("local")), PRIVATE)>> ELSE <<>>)
           \o <<ExpressionStatement(CallExpression(Id("callee"), <<>>)),
                SayExpr(Id("x")),
                ExpressionStatement(CallExpression(Id("callee"), <<>>))>>)
    \o <<SayExpr(Id("x"))>>

ClosurePrograms ==
    {ClosureProgram(global, at, operation, form, local) :
         global \in BOOLEAN, at \in DeclaredAt, operation \in Operations,
         form \in ScopeForms, local \in BOOLEAN}

InitClosure ==
    /\ program \in ClosurePrograms
    /\ files = NoFiles
    /\ pc = 1
    /\ st = Interpreter(EmptyState)
    /\ exit = Running
    /\ reset_source_map
    /\ returned = None

SpecClosure == InitClosure /\ [][Next]_vars

\* What the run prints when the callee uses the x of its declaring scope and
\* the caller the x of its own: the first call, the caller, the second call,
\* the top level; the run ends where a scope has no x to use.
ClosureOutput(global, at, operation, local) ==
    LET first == IF at = "maker" THEN "captured" ELSE "global"
        second == IF operation = "assign" THEN "written" ELSE first
        top == IF at = "global" /\ operation = "assign" THEN "written" ELSE "global"
    IN  IF at = "global" /\ ~global THEN <<>>
        ELSE IF ~local /\ ~global THEN <<Said(first)>>
        ELSE <<Said(first), Said(IF local THEN "local" ELSE top), Said(second)>>
             \o (IF global THEN <<Said(top)>> ELSE <<>>)

\* C25: a call of a user function resolves the free variables of its body in
\* the environment of its declaration and never in the caller's: the caller's
\* local x is neither read nor written by the callee, and what the callee
\* assigns to its captured x is seen by its next call.
C25_LexicalClosure ==
    exit.done =>
        \A global \in BOOLEAN, at \in DeclaredAt, operation \in Operations,
           form \in ScopeForms, local \in BOOLEAN :
            program = ClosureProgram(global, at, operation, form, local)
                => /\ st.out = ClosureOutput(global, at, operation, local)
                   /\ exit = IF global THEN Exit(0, "") ELSE Exit(1, "LAP4001")

\* C25 witness: the caller has a local x and there is a global x; the callee
\* made by maker printed its captured x, the caller still printed "local",
\* and the second call printed what the first had written.
C25_Witness ==
    /\ exit.done
    /\ \E form \in ScopeForms :
           program = ClosureProgram(TRUE, "maker", "assign", form, TRUE)
    /\ st.out = <<Said("captured"), Said("local"), Said("written"), Said("global")>>

-----------------------------------------------------------------------------
(* The current environment around statements and calls *)

\* The ways a body ends: normally, by an error, or by a transfer.
BodyEndings == {"plain", "error", "return", "break", "continue"}

BodyEnding(ending) ==
    CASE ending = "plain" -> <<>>
      [] ending = "error" -> <<ErrorStmt>>
      [] ending = "return" -> <<ReturnStatement(NoExpr)>>
      [] ending = "break" -> <<BreakStatement>>
      [] ending = "continue" -> <<ContinueStatement>>

\* var x = "inner"; <ending>  in a body of the given form; in the forms that
\* are not ScopeForms the body is the block of an  if (true) ... end.
Entered(form, ending) ==
    LET body == <<VarStatement("x", Lit(Str("inner")), PRIVATE)>> \o BodyEnding(ending)
    IN  IF form \in ScopeForms THEN InScope(form, body)
        ELSE InBody(form, IfStatement(True, BlockStatement(body), NoStmt, <<>>))

\* var x = "global";
\* func outer()
\*   var x = "outer";
\*   for c in [1]
\*     try <entered> catch (e) Console.print(x); end     (or <entered> alone)
\*     Console.print(x);
\*   end
\*   Console.print(x);
\* end
\* outer();
\* Console.print(x);
RestoreProgram(form, ending, guarded) ==
    <<VarStatement("x", Lit(Str("global")), PRIVATE),
      FunctionStatement("outer", <<>>,
          <<VarStatement("x", Lit(Str("outer")), PRIVATE),
            ForStatement("c", ArrayExpression(<<Lit(Num(1))>>),
                BlockStatement(
                    (IF guarded
                     THEN <<TryStatement(Entered(form, ending),
                                         <<CatchClause("e", <<SayExpr(Id("x"))>>)>>, <<>>)>>
                     ELSE Entered(form, ending))
                    \o <<SayExpr(Id("x"))>>)),
            SayExpr(Id("x"))>>, PRIVATE, ""),
      ExpressionStatement(CallExpression(Id("outer"), <<>>)),
      SayExpr(Id("x"))>>

RestorePrograms ==
    {RestoreProgram(form, ending, guarded) :
         form \in Forms, ending \in BodyEndings, guarded \in BOOLEAN}

InitRestore ==
    /\ program \in RestorePrograms
    /\ files = NoFiles
    /\ pc = 1
    /\ st = Interpreter(EmptyState)
    /\ exit = Running
    /\ reset_source_map
    /\ returned = None

SpecRestore == InitRestore /\ [][Next]_vars

\* The values of x that were printed, in order.
PrintedX(out) ==
    SelectSeq(out, LAMBDA o : o \in {Said("inner"), Said("outer"), Said("global")})

\* C26: when a statement or a call has finished, normally, by an error or by
\* a return, break or continue, the current environment is the one that was
\* current before it: between top-level statements it is the global one, and
\* inside outer every print of x after the entered body finds outer's x.
C26_EnvironmentRestored ==
    /\ st.environment = st.globals
    /\ LET printed == PrintedX(st.out)
       IN  /\ \A i \in 1..Len(printed) :
                  printed[i] = IF pc > Len(program) /\ i = Len(printed) THEN Said("global")
                               ELSE Said("outer")
           /\ (exit.done /\ exit.status = 0) => (pc > Len(program) /\ printed # <<>>)

\* C26 witness: the body of a catch clause with a variable ended by an error
\* inside a guarded try; the handler and the loop body then printed outer's x.
C26_Witness ==
    /\ exit.done
    /\ program = RestoreProgram("catch", "error", TRUE)
    /\ PrintedX(st.out) = <<Said("outer"), Said("outer"), Said("outer"), Said("global")>>

-----------------------------------------------------------------------------
(* Lexer.tokenize step by step: one scan step per action on every source of *)
(* at most MaxScanLen characters, with comments, strings, operators of one  *)
(* and two characters, skipped spaces and characters that start no token.   *)

MaxScanLen == 4

ScanChars == {"a", "=", "\n", " ", "&", "\"", "/", "*"}

ScanSources == SeqUpTo(ScanChars, MaxScanLen)

\* Lexer.__init__: the lexer before tokenize, and the steps it has taken
InitTokenize ==
    /\ program = <<>>
    /\ files = NoFiles
    /\ pc = 1
    /\ st = Interpreter(EmptyState)
    /\ exit = Running
    /\ tokens = <<>>
    /\ position = None
    /\ \E source \in ScanSources :
           /\ source_map = add_file(SourceMap, "main.lapis", source).map
           /\ returned = [source |-> source,
                          file_id |-> add_file(SourceMap, "main.lapis", source).file_id,
                          start |-> 0,
                          lexer |-> [current |-> 0, line |-> 1, column |-> 1,
                                     tokens |-> <<>>],
                          steps |-> 0,
                          kind |-> "scanning"]

\* Lexer.is_at_end
lexer_is_at_end == returned.lexer.current >= Len(returned.source)

\* tokenize, one iteration of its loop: self.start = self.current and a
\* scan_token that returns
ScanToken ==
    /\ returned.kind = "scanning"
    /\ ~lexer_is_at_end
    /\ LET r == scan_token(returned.lexer, returned.source, returned.file_id)
       IN  /\ "error" \notin DOMAIN r
           /\ returned' = [returned EXCEPT !.start = returned.lexer.current,
                                           !.lexer = r,
                                           !.steps = @ + 1]
    /\ UNCHANGED <<files, program, pc, st, exit, source_map, tokens, position>>

\* tokenize, one iteration of its loop in which scan_token raises LexError
ScanTokenRaise ==
    /\ returned.kind = "scanning"
    /\ ~lexer_is_at_end
    /\ LET r == scan_token(returned.lexer, returned.source, returned.file_id)
       IN  /\ "error" \in DOMAIN r
           /\ returned' = [returned EXCEPT !.start = returned.lexer.current,
                                           !.lexer = r,
                                           !.steps = @ + 1,
                                           !.kind = "raised"]
    /\ UNCHANGED <<files, program, pc, st, exit, source_map, tokens, position>>

\* tokenize after its loop: the EOF token is appended and the list returned
TokenizeReturn ==
    /\ returned.kind = "scanning"
    /\ lexer_is_at_end
    /\ LET l == returned.lexer
           all == Append(l.tokens, Token("EOF", <<>>, None, l.line, l.column, None))
       IN  /\ returned' = [returned EXCEPT !.lexer.tokens = all, !.kind = "returned"]
           /\ tokens' = all
    /\ UNCHANGED <<files, program, pc, st, exit, source_map, position>>

NextTokenize == ScanToken \/ ScanTokenRaise \/ TokenizeReturn

SpecTokenize == InitTokenize /\ [][NextTokenize]_vars

\* The offsets the emitted tokens carry
Spanned(all) == {i \in 1..Len(all) : all[i].span # None}

EOFs(all) == {i \in 1..Len(all) : all[i].type = "EOF"}

\* C27: tokenize terminates on every source, each scan step consuming at
\* least one character (so the steps never outnumber the characters); the
\* spans of the emitted tokens are non-empty, lie within [0, len(source)],
\* strictly increase and do not overlap; and when tokenize returns, exactly
\* one EOF token has been emitted, as the last token (it is the one token
\* that carries no span, and none is emitted before the return).
C27_TokenizeProgress ==
    LET l == returned.lexer
        all == l.tokens
        n == Len(returned.source)
    IN  /\ returned.steps > 0 => returned.start < l.current
        /\ l.current <= n
        /\ returned.steps <= l.current
        /\ returned.kind = "scanning" /\ returned.steps = n => lexer_is_at_end
        /\ \A i \in Spanned(all) :
               /\ 0 <= all[i].span.start
               /\ all[i].span.start < all[i].span.end
               /\ all[i].span.end <= n
               /\ \A j \in Spanned(all) : i < j => all[i].span.end <= all[j].span.start
        /\ \A i \in 1..Len(all) : i \notin Spanned(all) => all[i].type = "EOF"
        /\ IF returned.kind = "returned"
           THEN EOFs(all) = {Len(all)} /\ tokens = all
           ELSE EOFs(all) = {} /\ tokens = <<>>

\* C27 witness: tokenize has returned after a step that emitted no token
\* (a comment or a space), with two tokens of more than one step before EOF.
C27_Witness ==
    /\ returned.kind = "returned"
    /\ Len(tokens) = 3
    /\ returned.steps > 2
    /\ tokens[1].span.end < tokens[2].span.start

-----------------------------------------------------------------------------
(* Parser.parse on token streams with functions, if, try and switch         *)
(* statements, whole and broken: a stream is at most MaxPieces pieces, each *)
(* the opening of a construct, a stop token or a statement, and then EOF.   *)

MaxPieces == 4

Tok(type) ==
    Token(type, <<>>,
          IF type = "IDENTIFIER" THEN "a" ELSE IF type = "NUMBER" THEN Num(1) ELSE None,
          1, 1, Span(1, 0, 0))

Pieces ==
    {<<"FUNC", "IDENTIFIER", "LEFT_PAREN", "RIGHT_PAREN">>,
     <<"IF", "LEFT_PAREN", "NUMBER", "RIGHT_PAREN">>,
     <<"ELSE">>,
     <<"TRY">>,
     <<"CATCH">>,
     <<"FINALLY">>,
     <<"SWITCH", "LEFT_PAREN", "NUMBER", "RIGHT_PAREN">>,
     <<"CASE", "NUMBER", "COLON">>,
     <<"END">>,
     <<"IDENTIFIER", "SEMICOLON">>,
     <<"RIGHT_PAREN">>}

RECURSIVE Flattened(_)
Flattened(pieces) ==
    IF pieces = <<>> THEN <<>> ELSE Head(pieces) \o Flattened(Tail(pieces))

PieceStreams ==
    {[i \in 1..(Len(Flattened(pieces)) + 1) |->
         IF i > Len(Flattened(pieces)) THEN Token("EOF", <<>>, None, 1, 1, None)
         ELSE Tok(Flattened(pieces)[i])] : pieces \in SeqUpTo(Pieces, MaxPieces)}

InitParser ==
    /\ tokens \in PieceStreams
    /\ program = <<>>
    /\ files = NoFiles
    /\ pc = 1
    /\ st = Interpreter(EmptyState)
    /\ exit = Running
    /\ source_map = SourceMap
    /\ position = None
    /\ returned = None

\* Parser(tokens).parse()
ParserParse ==
    /\ returned = None
    /\ returned' = [call |-> "parse", result |-> parse(tokens)]
    /\ UNCHANGED <<files, program, pc, st, exit, source_map, tokens, position>>

\* Parser.synchronize() called with the parser at each token of the stream
ParserSynchronize ==
    /\ returned = None
    /\ returned' = [call |-> "synchronize",
                    result |-> [current \in 0..(Len(tokens) - 1) |->
                                   synchronize(tokens, current)]]
    /\ UNCHANGED <<files, program, pc, st, exit, source_map, tokens, position>>

NextParser == ParserParse \/ ParserSynchronize

SpecParser == InitParser /\ [][NextParser]_vars

\* C28: on every token list that ends with EOF, parse terminates: no
\* iteration of a statement-collecting loop (top level, function body,
\* block-until, try / catch / finally body, case body) leaves the parser at
\* the token it started from, and parse returns at EOF; synchronize()
\* advances past at least one token unless the parser is already at EOF.
C28_ParseProgress ==
    /\ (returned # None /\ returned.call = "parse")
           => /\ ~returned.result.stalled
              /\ returned.result.current = Len(tokens) - 1
    /\ (returned # None /\ returned.call = "synchronize")
           => \A current \in 0..(Len(tokens) - 1) :
                  IF is_at_end(tokens, current)
                  THEN returned.result[current] = current
                  ELSE returned.result[current] > current

\* C28 witness: a stream on which declaration() caught two parse errors,
\* one of them inside the body of a construct that was parsed to its end.
C28_Witness ==
    /\ returned # None
    /\ returned.call = "parse"
    /\ returned.result.errors = 2
    /\ Len(returned.result.statements) = 1

-----------------------------------------------------------------------------
(* A package statement that fails inside try / catch, then a second package *)
(* statement, over the files above and                                      *)
(*   bad.lapis        Console.print("BAD"); public var early = 1; nosuch;   *)
(*   unlexable.lapis  a text the lexer rejects                              *)

RetryFiles ==
    ImportFiles
    @@ ("bad" :> <<Say("BAD"), VarStatement("early", Lit(Num(1)), PUBLIC),
                   ExpressionStatement(Id("nosuch"))>>)
    @@ ("unlexable" :> Unlexable)

RetryPaths ==
    {Path(prefix, name) : prefix \in {"", "./"},
                          name \in {"d", "b", "bad", "unlexable", "missing"}}

RetryStatements ==
    {PackageStatement(path, imports) :
         path \in RetryPaths,
         imports \in {<<>>, <<"dx">>, <<"dx", "nosuch">>, <<"dpriv">>}}

\* try <first> catch (e) Console.print("caught"); end <second> Console.print("end");
RetryProgram(first, second) ==
    <<TryStatement(<<first>>, <<CatchClause("e", <<Say("caught")>>)>>, <<>>),
      second, Say("end")>>

RetryPrograms == {RetryProgram(first, second) : first, second \in RetryStatements}

InitRetry ==
    /\ program \in RetryPrograms
    /\ files = RetryFiles
    /\ pc = 1
    /\ st = Interpreter(EmptyState)
    /\ exit = Running
    /\ reset_source_map
    /\ returned = None

SpecRetry == InitRetry /\ [][Next]_vars

\* The first package statement has failed and the second names its path.
FailedBefore ==
    /\ pc = 2
    /\ ~exit.done
    /\ Count(Said("caught"), st.out) = 1
    /\ resolve_import_path(program[1].try_body[1].path) = resolve_import_path(program[2].path)

-----------------------------------------------------------------------------
(* One package statement for d.lapis with a use list of at most MaxUse      *)
(* names, public (dx, dy), private (dpriv) or missing (nosuch), at top      *)
(* level or inside try / catch.                                             *)

MaxUse == 3

UseLists == SeqUpTo({"dx", "dy", "dpriv", "nosuch"}, MaxUse) \ {<<>>}

\* package "d" use ...; Console.print("end");  or the same inside
\* try ... catch (e) Console.print("caught"); end
UseProgram(imports, guarded) ==
    LET package == PackageStatement(Path("", "d"), imports)
    IN  IF guarded
        THEN <<TryStatement(<<package>>, <<CatchClause("e", <<Say("caught")>>)>>, <<>>),
               Say("end")>>
        ELSE <<package, Say("end")>>

UsePrograms == {UseProgram(imports, guarded) : imports \in UseLists, guarded \in BOOLEAN}

InitUse ==
    /\ program \in UsePrograms
    /\ files = ImportFiles
    /\ pc = 1
    /\ st = Interpreter(EmptyState)
    /\ exit = Running
    /\ reset_source_map
    /\ returned = None

SpecUse == InitUse /\ [][Next]_vars

Guarded == program[1].k = "Try"

UseList == IF Guarded THEN program[1].try_body[1].imports ELSE program[1].imports

\* The listed names that cannot be imported, by their place in the list
BadPlaces == {i \in DOMAIN UseList : UseList[i] \notin {"dx", "dy"}}

\* The package statement has been executed and has failed
UseFailed ==
    IF Guarded THEN pc >= 2 /\ Count(Said("caught"), st.out) = 1
    ELSE pc = 1 /\ exit.done

\* The global environment of the module d as its evaluation left it
ModuleGlobals == st.envs[st.evaluated[1].globals].values

\* C30: a package statement with a use list that fails on its k-th name
\* fails with IMPORT_ERROR (LAP4003) after the target file was evaluated in
\* full, and the first k-1 names, no others, are defined as private bindings
\* of the importing environment with the module's values, and stay defined.
C30_UseListNotAtomic ==
    (UseFailed /\ BadPlaces # {}) =>
        LET k == CHOOSE i \in BadPlaces : \A j \in BadPlaces : i <= j
        IN  /\ Bound = BuiltIns \cup {UseList[i] : i \in 1..(k - 1)}
            /\ \A i \in 1..(k - 1) :
                   /\ st.envs[st.globals].values[UseList[i]].access_modifier = PRIVATE
                   /\ st.envs[st.globals].values[UseList[i]].value
                          = ModuleGlobals[UseList[i]].value
            /\ Len(st.evaluated) = 1
            /\ DOMAIN ModuleGlobals = BuiltIns \cup {"dx", "dy", "dpriv"}
            /\ Count(Said("D"), st.out) = 1
            /\ ~Guarded => exit.code = "LAP4003"
            /\ (Guarded /\ exit.done) => exit.status = 0

\* C30 witness: package "d" use dx, dy, nosuch; inside try / catch has failed
\* on its third name and the run went on with dx and dy defined.
C30_Witness ==
    /\ Guarded
    /\ UseList = <<"dx", "dy", "nosuch">>
    /\ pc = 3
    /\ UseFailed
    /\ Bound = BuiltIns \cup {"dx", "dy"}

=============================================================================
